---- MODULE Spec2Model ----
(***************************************************************************)
(* State-machine model of the web-search aggregation engine of predictex   *)
(* (src/src/backend): SearchRouter, CacheManager, QueryClassifier, the      *)
(* SearchProvider.safe_search wrapper and SearchResourceManager.           *)
(*                                                                         *)
(* Conventions                                                             *)
(*   - a score is an integer number of 1/10000 (ScoreOne is 1.0) and      *)
(*     stands for the float nearest to it; a weight is an integer in       *)
(*     tenths; a classifier score is a float, kept with its rounding error *)
(*     (see "Python floats");                                              *)
(*   - a URL is a tuple of one-character strings, a query text a tuple of  *)
(*     words;                                                              *)
(*   - a Python dict is a sequence of entries in insertion order;          *)
(*   - hashlib.md5 is taken to be injective: a cache key is the tuple of   *)
(*     the fields that _hash_query joins with ":".                         *)
(***************************************************************************)
EXTENDS Integers, Sequences, FiniteSets, TLC

VARIABLES
    config,         \* the configuration the router was constructed with
    texts,          \* the query texts the callers of this run send
    now,            \* wall clock, seconds (time.time(), datetime('now'))
    request_times,  \* SearchRouter._request_times
    cache,          \* table search_cache: query_hash -> row
    pc,             \* where each search coroutine is: "idle" | "selecting" | "fanout"
    call,           \* the call of each search coroutine; call[0]: the last to return
    tasks,          \* the safe_search tasks of each search coroutine; tasks[0] likewise
    response,       \* what the last search call to return returned or raised
    nCalls,         \* number of search calls made
    admitted,       \* history: the time of every call the rate limiter admitted
    plain_history,  \* history: last miss with results of each plain-text query
    arg,            \* pure-function harness: the input
    ret,            \* pure-function harness: the output
    sessions,       \* every aiohttp.ClientSession ever created, by identity
    manager,        \* the SearchResourceManager object
    closers,        \* close_provider_session coroutines suspended at their await
    closing,        \* the close_all coroutine: where it is, what it still gathers
    last_session,   \* history: what the last get_session of each provider returned
    outcome,        \* what the last manager call did
    instances,      \* every SearchResourceManager the module-level getter created
    _global_resource_manager,  \* the module global (0 is None)
    _resource_manager_lock,    \* the module-level asyncio.Lock: is it held
    callers,        \* the coroutines inside get_global_resource_manager
    writers,        \* the store calls in flight on the connections to the cache
    wiki,           \* the WikipediaProvider object
    rss,            \* the RSSProvider object
    limiters        \* the threads inside SearchRouter._check_rate_limit

sessionVars == <<sessions, manager, closers, closing, last_session, outcome>>

globalVars == <<instances, _global_resource_manager, _resource_manager_lock,
                callers>>

managerVars == <<sessionVars, globalVars>>

vars == <<config, texts, now, request_times, cache, pc, call, tasks, response,
          nCalls, admitted, plain_history, arg, ret, managerVars, writers, wiki, rss, limiters>>

routerVars == <<config, texts, now, request_times, cache, pc, call, tasks, response,
                nCalls, admitted, plain_history>>

None == "None"

----------------------------------------------------------------------------
(* Bounds of the model *)

MaxCalls == 2          \* search calls per behaviour
MaxFanoutCalls == 1    \* search calls per behaviour in the fan-out runs
MaxPerProvider == 1    \* results one provider returns to one query
MaxNow == 21600        \* the clock stops here
MaxAggResults == 3     \* results handed to one aggregation
MaxRateNow == 120      \* the clock stops here in the rate-limit runs
MaxLocalScore == 10    \* provider-local scores run from 0 to MaxLocalScore tenths
MaxCacheOps == 3       \* get and store calls per behaviour in the cache runs
MaxCacheNow == 7200    \* the clock stops here in the cache runs
MaxEvictOps == 4       \* get and store calls per behaviour in the eviction runs
MaxEvictNow == 1800    \* the clock stops here in the eviction runs

----------------------------------------------------------------------------
(* Program constants *)

ScoreOne == 10000              \* 1.0
RateWindow == 60               \* current_time - t < 60
DefaultRequestsPerMinute == 60
DefaultMaxResults == 10
DefaultConfidenceThreshold == 7
DefaultMaxEntries == 10000
DefaultTTL == 3600
TTLFactual == 86400
TTLCurrent == 3600
TTLGeneral == 21600
DefaultWeight == 10            \* 1.0

\* self.providers: a dict filled in this order by _initialize_providers
ProviderOrder == <<"duckduckgo", "wikipedia", "rss">>

ProviderNames == {"duckduckgo", "wikipedia", "rss"}

QueryTypes == {"factual", "current", "general"}

Range(s) == {s[i] : i \in DOMAIN s}

Min(a, b) == IF a < b THEN a ELSE b

Max(a, b) == IF a > b THEN a ELSE b

\* SelectSeq with a set as the test
Keep(s, S) ==
    LET Test(x) == x \in S IN SelectSeq(s, Test)

\* the one element of a set with one element
TheOnly(S) == CHOOSE y \in S : TRUE

RECURSIVE Concat(_)
Concat(ss) == IF ss = <<>> THEN <<>> ELSE Head(ss) \o Concat(Tail(ss))

----------------------------------------------------------------------------
(* search_models.py *)

\* SearchQuery(text, query_type, max_results, language)
SearchQuery(text, query_type, max_results, language) ==
    [text |-> text, query_type |-> query_type,
     max_results |-> max_results, language |-> language]

\* SearchResult; provider is metadata["provider"]
SearchResult(title, url, source, score) ==
    [title |-> title, url |-> url, source |-> source, score |-> score,
     provider |-> None]

\* SearchResult.to_dict: the JSON object stored in the cache
to_dict(r) ==
    [title |-> r.title, url |-> r.url, source |-> r.source, score |-> r.score,
     metadata |-> [provider |-> r.provider]]

\* SearchResult.from_dict
from_dict(d) ==
    [title |-> d.title, url |-> d.url, source |-> d.source, score |-> d.score,
     provider |-> d.metadata.provider]

----------------------------------------------------------------------------
(* Python floats: IEEE 754 doubles, 53 bits, round to nearest, ties to even

   A float that lies next to the decimal n / 10^s is known by n and by err, its
   distance from that decimal in units of 1 / (5^s * 2^p): with p large enough
   every float is a whole number of units away from every such decimal. *)

Pow(b, k) == b ^ k

\* (x * 2^k) mod m for m < 2^15, sixteen doublings at a time
RECURSIVE DoubledMod(_, _, _)
DoubledMod(x, k, m) ==
    IF k <= 16 THEN ((x % m) * Pow(2, k)) % m
    ELSE DoubledMod(((x % m) * Pow(2, 16)) % m, k - 16, m)

\* the exponent a of the binade of n / d > 0: 2^a <= n / d < 2^(a + 1)
RECURSIVE Binade(_, _)
Binade(n, d) ==
    IF n < d THEN Binade(2 * n, d) - 1
    ELSE IF n >= 2 * d THEN Binade(n, 2 * d) + 1
    ELSE 0

\* n / d > 0 is a power of two
RECURSIVE IsPowerOfTwo(_, _)
IsPowerOfTwo(n, d) ==
    IF n < d THEN IsPowerOfTwo(2 * n, d)
    ELSE IF n >= 2 * d THEN IsPowerOfTwo(n, 2 * d)
    ELSE n = d

Sign(x) == IF x > 0 THEN 1 ELSE IF x < 0 THEN -1 ELSE 0

\* the rounding of an operation whose exact result is n / 10^s plus exact
\* units (n >= 0): the err of the float it returns. The floats of the binade
\* with exponent a are the multiples of 2^(a - 52); bias is the sign of what
\* the exact result has beyond the units
Nearest(n, s, p, exact, bias) ==
    IF n = 0 THEN 0
    ELSE TheOnly({
        LET g == a.g
            m == a.m
            x == a.exact + g * a.r
            z == x \div (g * m)
            rem == x % (g * m)
            odd == (a.parity + z) % 2 = 1
            up == \/ 2 * rem > g * m
                  \/ /\ 2 * rem = g * m
                     /\ IF a.bias # 0 THEN a.bias > 0 ELSE odd
        IN  g * (m * (IF up THEN z + 1 ELSE z) - a.r) :
        a \in {[exact |-> exact, bias |-> bias,
                g |-> Pow(2, p - j),
                m |-> Pow(5, s),
                r |-> DoubledMod(n, j - s, Pow(5, s)),
                parity |-> DoubledMod(n, j - s, 2 * Pow(5, s)) \div Pow(5, s)] :
            j \in {52 - Binade(n, Pow(10, s))
                      + (IF /\ IsPowerOfTwo(n, Pow(10, s))
                            /\ exact < 0 \/ (exact = 0 /\ bias < 0)
                         THEN 1 ELSE 0)}}})

\* the float literal n / 10 (0.8, 0.3, 0.7); the units of the classifier's
\* floats are 1 / (5 * 2^60)
Tenths(n) == [tenths |-> n, err |-> Nearest(n, 1, 60, 0, 0)]

\* a + b
FloatAdd(a, b) ==
    [tenths |-> a.tenths + b.tenths,
     err |-> Nearest(a.tenths + b.tenths, 1, 60, a.err + b.err, 0)]

\* a * k for an int k
FloatTimes(a, k) ==
    [tenths |-> a.tenths * k, err |-> Nearest(a.tenths * k, 1, 60, a.err * k, 0)]

\* a < b
FloatLess(a, b) ==
    \/ a.tenths < b.tenths
    \/ a.tenths = b.tenths /\ a.err < b.err

\* the sign of num / den - (thr / 10 + b units), the quotient being the exact
\* one
QuotientCmp(num, den, thr, b) ==
    LET first == 10 * num.tenths - thr * den.tenths
        second == 10 * num.err - thr * den.err - b * den.tenths
        third == -(b * den.err)
    IN  IF first # 0 THEN Sign(first)
        ELSE IF second # 0 THEN Sign(second)
        ELSE Sign(third)

\* half the distance from the float literal thr / 10 to the float below it
\* (side = -1) or above it (side = 1), in units
HalfUlp(thr, side) ==
    LET above == (5 * Pow(2, 8 + Binade(thr, 10))) \div 2
    IN  IF side < 0 /\ IsPowerOfTwo(thr, 10) THEN above \div 2 ELSE above

\* the last bit of the float literal thr / 10 is set
OddFloat(thr) ==
    LET j == 52 - Binade(thr, 10)
        x == DoubledMod(thr, j - 1, 10) + (Tenths(thr).err \div Pow(2, 60 - j))
    IN  ((x % 10) \div 5) % 2 = 1

----------------------------------------------------------------------------
(* query_classifier.py *)

\* rules[type]["weight"], in tenths
RuleWeight(t) ==
    CASE t = "factual" -> 8
      [] t = "current" -> 9
      [] t = "general" -> 6

\* the patterns of rules[type]["patterns"] a word matches, by position in the list
PatternsIn(w) ==
    CASE w = "define" -> {<<"factual", 6>>}
      [] w = "explain" -> {<<"factual", 7>>}
      [] w = "today" -> {<<"current", 1>>}
      [] w = "news" -> {<<"current", 2>>}
      [] w = "novosti" -> {<<"current", 2>>}
      [] w = "find" -> {<<"general", 1>>}
      [] w = "how" -> {<<"general", 2>>}
      [] OTHER -> {}

\* the keywords of rules[type]["keywords"] a word contains, by position in
\* the list; the keyword lists are Russian, so no word of the English
\* vocabulary contains one; the Russian words are written in Latin letters:
\* istoriya, svezhij, zachem and novosti (which is also matched by the second
\* pattern of "current")
KeywordsIn(w) ==
    CASE w = "istoriya" -> {<<"factual", 4>>}
      [] w = "svezhij" -> {<<"current", 11>>}
      [] w = "zachem" -> {<<"general", 8>>}
      [] w = "novosti" -> {<<"current", 1>>}
      [] OTHER -> {}

\* _extract_temporal_markers: the markers a word yields (\b\d{4}\b for a year)
TemporalIn(w) == IF w = "2024" THEN {"2024"} ELSE {}

\* word[0].isupper() and len(word) > 2
IsCapitalised(w) == w \in {"Python"}

\* _extract_named_entities: capitalised words other than the first
NamedEntities(text) == {i \in DOMAIN text : i > 1 /\ IsCapitalised(text[i])}

TypeOrder == <<"factual", "current", "general">>

\* scores[query_type] += rules["weight"], once for every keyword and every
\* pattern found
RECURSIVE AddWeight(_, _, _)
AddWeight(score, weight, hits) ==
    IF hits = 0 THEN score
    ELSE AddWeight(FloatAdd(score, weight), weight, hits - 1)

\* scores[type]
TypeScore(text, t) ==
    LET kws == UNION {KeywordsIn(text[i]) : i \in DOMAIN text}
        pats == UNION {PatternsIn(text[i]) : i \in DOMAIN text}
        markers == UNION {TemporalIn(text[i]) : i \in DOMAIN text}
        entities == NamedEntities(text)
        hits == Cardinality({k \in kws : k[1] = t}) + Cardinality({p \in pats : p[1] = t})
        matched == AddWeight(Tenths(0), Tenths(RuleWeight(t)), hits)
    IN  IF t = "current" /\ markers # {}
        THEN FloatAdd(matched, FloatTimes(Tenths(3), Cardinality(markers)))
        ELSE IF t = "factual" /\ entities # {}
        THEN FloatAdd(matched, FloatTimes(Tenths(2), Cardinality(entities)))
        ELSE matched

\* the dict scores
Scores(text) == [t \in QueryTypes |-> TypeScore(text, t)]

\* sum(scores.values()): the floats added to 0 in dict order
SumScores(scores) ==
    FloatAdd(FloatAdd(FloatAdd(Tenths(0), scores["factual"]), scores["current"]),
             scores["general"])

\* the last type, in dict order, with the minimal score
ArgMinType(scores) ==
    LET worst(i) == \A j \in 1..3 :
                       /\ ~FloatLess(scores[TypeOrder[j]], scores[TypeOrder[i]])
                       /\ (j > i => FloatLess(scores[TypeOrder[i]], scores[TypeOrder[j]]))
    IN  TypeOrder[CHOOSE i \in 1..3 : worst(i)]

\* max(scores, key=scores.get): the first type, in dict order, with the maximal score
ArgMaxType(scores) ==
    LET best(i) == \A j \in 1..3 :
                      /\ ~FloatLess(scores[TypeOrder[i]], scores[TypeOrder[j]])
                      /\ (j < i => FloatLess(scores[TypeOrder[j]], scores[TypeOrder[i]]))
    IN  TypeOrder[CHOOSE i \in 1..3 : best(i)]

\* a confidence is the float c.num / c.den, kept as the two floats divided; a
\* threshold is in tenths and stands for the float literal thr / 10.
\* confidence < threshold: the quotient rounds to a float below the literal
\* when it lies below the middle between the literal and the float before it
ConfBelow(c, thr) ==
    /\ thr > 0
    /\ LET side == QuotientCmp(c.num, c.den, thr, Tenths(thr).err - HalfUlp(thr, -1))
       IN  side < 0 \/ (side = 0 /\ OddFloat(thr))

\* confidence > threshold
ConfAbove(c, thr) ==
    IF thr <= 0 THEN c.num.tenths > 0 \/ thr < 0
    ELSE LET side == QuotientCmp(c.num, c.den, thr, Tenths(thr).err + HalfUlp(thr, 1))
         IN  side > 0 \/ (side = 0 /\ OddFloat(thr))

\* the suggestion without the provider map: every provider for every type
suggest_every_provider(query_type, confidence, threshold) ==
    <<"duckduckgo", "wikipedia", "rss">>

\* QueryClassifier._select_providers_for_type
_select_providers_for_type(query_type, confidence, threshold) ==
    IF ConfBelow(confidence, threshold)
    THEN <<"duckduckgo", "wikipedia", "rss">>
    ELSE CASE query_type = "factual" -> <<"wikipedia", "duckduckgo">>
           [] query_type = "current" -> <<"rss", "duckduckgo">>
           [] query_type = "general" -> <<"duckduckgo", "wikipedia", "rss">>
           [] OTHER -> <<"duckduckgo">>

\* QueryClassifier.classify
classify(text, threshold) ==
    LET scores == Scores(text)
        total_score == SumScores(scores)
        primary == IF total_score.tenths = 0 THEN "general" ELSE ArgMaxType(scores)
        conf == IF total_score.tenths = 0 THEN [num |-> Tenths(5), den |-> Tenths(10)]
                ELSE [num |-> scores[primary], den |-> total_score]
    IN  [primary_type |-> primary, confidence |-> conf,
         suggested_providers |-> _select_providers_for_type(primary, conf, threshold)]

----------------------------------------------------------------------------
(* search_providers.py and the three providers *)

\* get_supported_query_types of each provider
SupportedTypes(p) ==
    CASE p = "duckduckgo" -> {"general", "factual", "current"}
      [] p = "wikipedia" -> {"factual", "general"}
      [] p = "rss" -> {"current", "general"}

\* SearchProvider.validate_query
validate_query(query) ==
    /\ query.text # <<>>
    /\ query.max_results > 0

\* the loop of safe_search run twice over the same results
ApplyWeightTwice(results, weight) ==
    [i \in DOMAIN results |->
        [results[i] EXCEPT !.score = (((results[i].score * weight) \div 10)
                                         * weight) \div 10]]

\* the loop of safe_search: result.score *= self.weight
ApplyWeight(results, weight) ==
    [i \in DOMAIN results |->
        [results[i] EXCEPT !.score = (results[i].score * weight) \div 10]]

\* what a safe_search coroutine hands to asyncio.gather: a list (kind "list"),
\* None (kind "none") or, had it raised, the exception (kind "exception");
\* raised notes whether the provider's search raised
TaskValue(kind, results, raised) ==
    [kind |-> kind, results |-> results, raised |-> raised]

\* what the outside world does to one safe_search call: is_available returns
\* available unless it raises (unavailable_raises), search returns output
\* unless it raises (raises)
Env(available, unavailable_raises, raises, output) ==
    [available |-> available, unavailable_raises |-> unavailable_raises,
     raises |-> raises, output |-> output]

\* SearchProvider.safe_search
safe_search(cfg, p, query, env) ==
    IF p \notin cfg.providers THEN TaskValue("list", <<>>, FALSE)
    ELSE IF ~validate_query(query) THEN TaskValue("list", <<>>, FALSE)
    ELSE IF env.unavailable_raises THEN TaskValue("list", <<>>, FALSE)
    ELSE IF ~env.available THEN TaskValue("list", <<>>, FALSE)
    ELSE IF env.raises THEN TaskValue("list", <<>>, TRUE)
    ELSE TaskValue("list", ApplyWeight(env.output, cfg.weight[p]), FALSE)

\* the provider methods one safe_search call invokes, in order
safe_search_invokes(cfg, p, query, env) ==
    IF p \notin cfg.providers THEN <<>>
    ELSE IF ~validate_query(query) THEN <<"validate_query">>
    ELSE IF env.unavailable_raises \/ ~env.available
    THEN <<"validate_query", "is_available">>
    ELSE <<"validate_query", "is_available", "search">>

----------------------------------------------------------------------------
(* cache_manager.py *)

\* CacheManager._hash_query: the fields joined into query_str
_hash_query(query) ==
    <<query.text, query.language, query.max_results>>
    \o (IF query.query_type \in {None, ""} THEN <<>> ELSE <<query.query_type>>)

\* CacheManager._get_ttl_for_query_type
_get_ttl_for_query_type(cfg, query_type) ==
    CASE query_type = "factual" -> TTLFactual
      [] query_type = "current" -> TTLCurrent
      [] query_type = "general" -> TTLGeneral
      [] OTHER -> cfg.default_ttl

\* the sub-second part of the process clock (datetime.now().microsecond) at a
\* store
Microseconds == {0, 500000}

\* expires_at > datetime('now') at database time t. SQLite compares the two
\* as text: expires_at was written by the process clock as
\* 'YYYY-MM-DD HH:MM:SS.ffffff' (without the fraction when it is 0) and
\* datetime('now') is 'YYYY-MM-DD HH:MM:SS', so within the second of expiry
\* the longer text is the greater one
Unexpired(row, t) ==
    \/ row.expires_at > t
    \/ row.expires_at = t /\ row.expires_micro # 0

\* a get that also pushes the expiry of the row it hits
CacheGetRefreshes(cfg, c, query, t) ==
    LET k == _hash_query(query)
        hit == /\ cfg.cache_enabled
               /\ k \in DOMAIN c
               /\ Unexpired(c[k], t)
    IN  IF hit
        THEN [hit |-> TRUE,
              cache |-> [c EXCEPT ![k].access_count = @ + 1,
                                  ![k].last_accessed = t,
                                  ![k].expires_at = @ + 1],
              results |-> [i \in DOMAIN c[k].results |-> from_dict(c[k].results[i])],
              sources |-> c[k].sources]
        ELSE [hit |-> FALSE, cache |-> c, results |-> <<>>, sources |-> <<>>]

\* CacheManager.get at time t: whether it hits, the table afterwards, and what
\* it returns
CacheGet(cfg, c, query, t) ==
    LET k == _hash_query(query)
        hit == /\ cfg.cache_enabled
               /\ k \in DOMAIN c
               /\ Unexpired(c[k], t)
    IN  IF hit
        THEN [hit |-> TRUE,
              cache |-> [c EXCEPT ![k].access_count = @ + 1,
                                  ![k].last_accessed = t],
              results |-> [i \in DOMAIN c[k].results |-> from_dict(c[k].results[i])],
              sources |-> c[k].sources]
        ELSE [hit |-> FALSE, cache |-> c, results |-> <<>>, sources |-> <<>>]

\* ORDER BY last_accessed DESC, access_count DESC
Hotter(a, b) ==
    \/ a.last_accessed > b.last_accessed
    \/ a.last_accessed = b.last_accessed /\ a.access_count > b.access_count

\* _check_cache_size trimming to max_entries instead of 80% of it
TrimToMaxEntries(cfg, c) ==
    IF Cardinality(DOMAIN c) > cfg.max_entries
    THEN LET KeepSets == {K \in SUBSET DOMAIN c :
                             /\ Cardinality(K) = cfg.max_entries
                             /\ \A k \in K, j \in (DOMAIN c) \ K : ~Hotter(c[j], c[k])}
         IN  {[k \in K |-> c[k]] : K \in KeepSets}
    ELSE {c}

\* CacheManager._check_cache_size: the tables it can leave (rows that tie in
\* the ordering are kept in whatever order the database picks)
_check_cache_size(cfg, c) ==
    IF Cardinality(DOMAIN c) > cfg.max_entries
    THEN LET keep_count == (cfg.max_entries * 8) \div 10
             KeepSets == {K \in SUBSET DOMAIN c :
                             /\ Cardinality(K) = keep_count
                             /\ \A k \in K, j \in (DOMAIN c) \ K : ~Hotter(c[j], c[k])}
         IN  {[k \in K |-> c[k]] : K \in KeepSets}
    ELSE {c}

\* the row INSERT OR REPLACE writes at database time t, the process clock
\* being micro microseconds into its second
CacheRow(cfg, query, results, sources, t, micro) ==
    [query_text |-> query.text,
     query_type |-> query.query_type,
     results |-> [i \in DOMAIN results |-> to_dict(results[i])],
     sources |-> sources,
     created_at |-> t,
     expires_at |-> t + cfg.tz_offset + _get_ttl_for_query_type(cfg, query.query_type),
     expires_micro |-> micro,
     access_count |-> 1,
     last_accessed |-> t]

\* CacheManager.store at time t: the tables it can leave
CacheStore(cfg, c, query, results, sources, t, micro) ==
    IF ~cfg.cache_enabled \/ results = <<>>
    THEN {c}
    ELSE LET k == _hash_query(query)
             row == CacheRow(cfg, query, results, sources, t, micro)
             written == [j \in (DOMAIN c) \cup {k} |-> IF j = k THEN row ELSE c[j]]
         IN  _check_cache_size(cfg, written)

\* the DELETE of _check_cache_size on table c: the tables it can leave
delete_coldest(cfg, c) ==
    LET keep_count == Min((cfg.max_entries * 8) \div 10, Cardinality(DOMAIN c))
        KeepSets == {K \in SUBSET DOMAIN c :
                        /\ Cardinality(K) = keep_count
                        /\ \A k \in K, j \in (DOMAIN c) \ K : ~Hotter(c[j], c[k])}
    IN  {[k \in K |-> c[k]] : K \in KeepSets}

\* the connections that write to one cache database
Writers == {1, 2}

NoWriter == [pc |-> "idle"]

\* store on connection w up to the conn.commit() after its INSERT OR REPLACE
StoreInsert(w, query, results, sources, micro) ==
    /\ writers[w].pc = "idle"
    /\ IF ~config.cache_enabled \/ results = <<>>
       THEN UNCHANGED <<cache, writers, wiki, rss, limiters>>
       ELSE /\ cache' = [j \in (DOMAIN cache) \cup {_hash_query(query)} |->
                            IF j = _hash_query(query)
                            THEN CacheRow(config, query, results, sources, now, micro)
                            ELSE cache[j]]
            /\ writers' = [writers EXCEPT ![w].pc = "inserted"]

\* _check_cache_size on connection w: SELECT COUNT(*) and the test on it
StoreCount(w) ==
    /\ writers[w].pc = "inserted"
    /\ writers' = [writers EXCEPT ![w].pc =
                      IF Cardinality(DOMAIN cache) > config.max_entries
                      THEN "counted" ELSE "idle"]
    /\ UNCHANGED cache

\* _check_cache_size on connection w: the DELETE and its conn.commit()
StoreDelete(w) ==
    /\ writers[w].pc = "counted"
    /\ cache' \in delete_coldest(config, cache)
    /\ writers' = [writers EXCEPT ![w].pc = "idle"]

\* what CacheManager.get hands back, or that it raised
GetOutcome(raised, hit, c, results, sources) ==
    [raised |-> raised, hit |-> hit, cache |-> c, results |-> results,
     sources |-> sources]

\* CacheManager.get at time t under a storage fault: "none"; "connect"
\* (sqlite3.connect raises, conn is never bound and the conn.close() after the
\* except block raises UnboundLocalError); "execute" (the SELECT raises);
\* "corrupt" (json.loads of the row raises, after the UPDATE was committed)
get(cfg, c, query, t, fault) ==
    LET got == CacheGet(cfg, c, query, t)
    IN  IF ~cfg.cache_enabled THEN GetOutcome(FALSE, FALSE, c, <<>>, <<>>)
        ELSE CASE fault = "connect" -> GetOutcome(TRUE, FALSE, c, <<>>, <<>>)
               [] fault = "execute" -> GetOutcome(FALSE, FALSE, c, <<>>, <<>>)
               [] fault = "corrupt" -> GetOutcome(FALSE, FALSE, got.cache, <<>>, <<>>)
               [] OTHER -> GetOutcome(FALSE, got.hit, got.cache, got.results,
                                      got.sources)

\* CacheManager.store at time t under a storage fault: "none"; "connect"
\* (sqlite3.connect raises); "execute" (the INSERT raises, nothing is
\* committed). Every exception is caught: the tables it can leave
store(cfg, c, query, results, sources, t, micro, fault) ==
    IF fault \in {"connect", "execute"} THEN {c}
    ELSE CacheStore(cfg, c, query, results, sources, t, micro)

\* CacheManager.cleanup_expired at database time t: the table it leaves. The
\* DELETE compares the texts too (expires_at < datetime('now')): within the
\* second of expiry neither text is the smaller one
cleanup_expired(cfg, c, t) ==
    IF ~cfg.cache_enabled THEN c
    ELSE [k \in {j \in DOMAIN c : ~(c[j].expires_at < t)} |-> c[k]]

\* CacheManager.invalidate_by_type: the table it leaves; query_type = NULL
\* holds for no row
invalidate_by_type(cfg, c, query_type) ==
    IF ~cfg.cache_enabled THEN c
    ELSE [k \in {j \in DOMAIN c : query_type = None \/ c[j].query_type # query_type}
             |-> c[k]]

----------------------------------------------------------------------------
(* search_router.py *)

\* str.lower() of one character
LowerChar(ch) ==
    CASE ch = "A" -> "a"
      [] ch = "B" -> "b"
      [] OTHER -> ch

RECURSIVE RStripSlash(_)
\* str.rstrip('/')
RStripSlash(u) ==
    IF u # <<>> /\ u[Len(u)] = "/"
    THEN RStripSlash(SubSeq(u, 1, Len(u) - 1))
    ELSE u

\* result.url.lower().rstrip('/')
NormalizeUrl(u) == RStripSlash([i \in DOMAIN u |-> LowerChar(u[i])])

\* the first loop of _aggregate_results: all_results, each result tagged with
\* its provider; provider_results is the dict as a sequence of [name, results]
AllResults(provider_results) ==
    Concat([i \in DOMAIN provider_results |->
              [j \in DOMAIN provider_results[i].results |->
                  [provider_results[i].results[j]
                      EXCEPT !.provider = provider_results[i].name]]])

\* unique_results without the seen_urls test: every result with a URL is kept
DedupNothing(rs, seen_urls) ==
    Keep(rs, {r \in Range(rs) : NormalizeUrl(r.url) # <<>> \/ r.url = <<>>})

RECURSIVE DedupByUrl(_, _)
\* the second loop of _aggregate_results: unique_results
DedupByUrl(rs, seen_urls) ==
    IF rs = <<>> THEN <<>>
    ELSE LET result == Head(rs)
             normalized_url == NormalizeUrl(result.url)
         IN  IF normalized_url # <<>> /\ normalized_url \notin seen_urls
             THEN <<result>> \o DedupByUrl(Tail(rs), seen_urls \cup {normalized_url})
             ELSE IF result.url = <<>>
             THEN <<result>> \o DedupByUrl(Tail(rs), seen_urls)
             ELSE DedupByUrl(Tail(rs), seen_urls)

\* the bonus and the clamp _rank_results applies to one score
RankScore(score, provider, query_type) ==
    LET bonus == IF query_type = "factual" /\ provider = "wikipedia"
                 THEN (score * 12) \div 10
                 ELSE IF query_type = "current" /\ provider = "rss"
                 THEN (score * 115) \div 100
                 ELSE score
    IN  Min(bonus, ScoreOne)

\* the float _rank_results leaves in result.score: the score times 1.2 or
\* 1.15, a float product, and min(result.score, 1.0). It is the pair of the
\* decimal in units of 1/1000000 and of the err of the float, in units of
\* 1 / (5^6 * 2^p) with p five bits past the last bit of the decimal's binade:
\* 0.75 * 1.2 is the float before 0.9
RankFloat(score, provider, query_type) ==
    LET factor == IF query_type = "factual" /\ provider = "wikipedia" THEN 120
                  ELSE IF query_type = "current" /\ provider = "rss" THEN 115
                  ELSE 100
        size == IF score < 0 THEN -score ELSE score
        n == size * factor
    IN  IF n = 0 THEN <<0, 0>>
        ELSE IF score > 0 /\ n > ScoreOne * 100 THEN <<ScoreOne * 100, 0>>
        ELSE TheOnly({IF score < 0 THEN <<-n, -err>> ELSE <<n, err>> :
            err \in UNION {
                {IF factor = 100 THEN Nearest(n, 6, f.p, 0, 0)
                 ELSE Nearest(n, 6, f.p, factor * f.of_score + size * f.of_factor,
                              Sign(f.of_score) * Sign(f.of_factor))} :
                f \in {[p |-> p, of_score |-> Nearest(size, 4, p - 2, 0, 0),
                        of_factor |-> Nearest(factor, 2, p - 4, 0, 0)] :
                    p \in {57 - Binade(n, ScoreOne * 100)}}}})

\* a > b for two floats of _rank_results
FloatAbove(a, b) == a[1] > b[1] \/ (a[1] = b[1] /\ a[2] > b[2])

\* a descending sort that reverses an ascending one: equal scores change places
SortsBeforeReversed(results, i, j) ==
    \/ FloatAbove(results[i].float, results[j].float)
    \/ results[i].float = results[j].float /\ i > j

\* whether results[i] ends up before results[j] in results.sort(key=score,
\* reverse=True): the sort is stable, equal scores keep their order
SortsBefore(results, i, j) ==
    \/ FloatAbove(results[i].float, results[j].float)
    \/ results[i].float = results[j].float /\ i < j

\* results.sort(key=lambda x: x.score, reverse=True)
SortByScore(results) ==
    LET Place(i) == 1 + Cardinality({j \in DOMAIN results : SortsBefore(results, j, i)})
    IN  [k \in DOMAIN results |-> results[CHOOSE i \in DOMAIN results : Place(i) = k]]

\* SearchRouter._rank_results
_rank_results(results, query) ==
    TheOnly({[k \in DOMAIN sorted |->
                [results[sorted[k].at] EXCEPT !.score =
                    RankScore(@, results[sorted[k].at].provider, query.query_type)]] :
        sorted \in {SortByScore([i \in DOMAIN results |->
            [at |-> i,
             float |-> RankFloat(results[i].score, results[i].provider,
                                 query.query_type)]])}})

\* the slice left out: ranked_results
TruncateNothing(rs, n) == rs

\* ranked_results[:query.max_results]
Truncate(rs, n) ==
    IF n >= 0 THEN SubSeq(rs, 1, Min(n, Len(rs)))
    ELSE SubSeq(rs, 1, Max(Len(rs) + n, 0))

\* SearchRouter._aggregate_results
_aggregate_results(provider_results, query) ==
    TheOnly({IF all_results = <<>> THEN <<>>
             ELSE TheOnly({Truncate(_rank_results(unique_results, query),
                                    query.max_results) :
                              unique_results \in {DedupByUrl(all_results, {})}}) :
                all_results \in {AllResults(provider_results)}})

\* _check_rate_limit recording the time of a call before it tests the limit:
\* rejected calls count too
CountRejected(cfg, times, t) ==
    IF ~cfg.rl_enabled THEN [ok |-> TRUE, times |-> times]
    ELSE LET Recent(x) == t - x < RateWindow
             kept == SelectSeq(times, Recent)
         IN  [ok |-> Len(kept) < cfg.requests_per_minute, times |-> Append(kept, t)]

\* SearchRouter._check_rate_limit at time t: whether the call is admitted and
\* the _request_times it leaves
_check_rate_limit(cfg, times, t) ==
    IF ~cfg.rl_enabled THEN [ok |-> TRUE, times |-> times]
    ELSE LET Recent(x) == t - x < RateWindow
             kept == SelectSeq(times, Recent)
         IN  IF Len(kept) >= cfg.requests_per_minute
             THEN [ok |-> FALSE, times |-> kept]
             ELSE [ok |-> TRUE, times |-> Append(kept, t)]

\* SearchRouter._select_providers; avail[p] is what is_available() of p answers
_select_providers(cfg, classification, avail) ==
    LET providers == Keep(ProviderOrder, cfg.providers)
        Suggested(p) == p \in cfg.providers /\ avail[p]
        Supporting(p) == avail[p] /\ classification.primary_type \in SupportedTypes(p)
        selected ==
            IF ConfAbove(classification.confidence, cfg.confidence_threshold)
            THEN SelectSeq(classification.suggested_providers, Suggested)
            ELSE SelectSeq(providers, Supporting)
    IN  IF cfg.strategy = "all_providers" THEN providers
        ELSE IF selected = <<>> /\ "duckduckgo" \in cfg.providers
        THEN <<"duckduckgo">>
        ELSE selected

\* what asyncio.wait_for(asyncio.gather(..., return_exceptions=True)) hands
\* back: the list of the tasks' values, or [] after asyncio.TimeoutError
GatherResults(selected, tk, timed_out) ==
    IF timed_out THEN <<>>
    ELSE [i \in DOMAIN selected |-> tk[selected[i]].value]

\* the collecting loop of _execute_search: provider_results, or the TypeError
\* of len(None) in its debug line
CollectResults(selected, results) ==
    LET n == Min(Len(results), Len(selected))
    IN  [error |-> \E i \in 1..n : results[i].kind = "none",
         entries |-> [i \in 1..n |->
                        [name |-> selected[i],
                         results |-> IF results[i].kind = "list"
                                     THEN results[i].results ELSE <<>>]]]

\* list(provider_results.keys())
Keys(provider_results) == [i \in DOMAIN provider_results |-> provider_results[i].name]

----------------------------------------------------------------------------
(* Configurations and inputs *)

\* the configuration every config.get(...) default yields
DefaultConfig ==
    [enabled |-> TRUE,
     strategy |-> "smart_routing",
     default_language |-> "ru",
     max_results |-> DefaultMaxResults,
     providers |-> ProviderNames,
     weight |-> [p \in ProviderNames |-> DefaultWeight],
     confidence_threshold |-> DefaultConfidenceThreshold,
     rl_enabled |-> FALSE,
     requests_per_minute |-> DefaultRequestsPerMinute,
     cache_enabled |-> TRUE,
     max_entries |-> DefaultMaxEntries,
     default_ttl |-> DefaultTTL,
     tz_offset |-> 0]

\* the search runs: a configuration and the texts searched under it
MainRuns ==
    {[config |-> DefaultConfig, texts |-> {<<"define", "python">>}],
     [config |-> DefaultConfig, texts |-> {<<"today", "news">>}]}

\* the rate-limit runs: requests_per_minute
RateLimits == {1, 2}

RateTexts == {<<"python">>}

QueryTexts == RateTexts \cup UNION {r.texts : r \in MainRuns}

QueryTypeInputs == {None, "factual"}

\* max_results as passed to search; 0 stands for both None and 0 (falsy)
MaxResultsInputs == {0, 1}

LanguageInputs == {None}

\* the i-th result provider p finds
CatalogueItem(p, i) ==
    CASE p = "duckduckgo" ->
            SearchResult(i, IF i % 2 = 1 THEN <<"a">> ELSE <<>>, p,
                         Max(9000 - (i - 1) * 1000, 1000))
      [] p = "wikipedia" ->
            SearchResult(i, IF i % 2 = 1 THEN <<"A", "/">> ELSE <<"b">>, p, 9000)
      [] p = "rss" ->
            SearchResult(i, IF i % 2 = 1 THEN <<"b", "/">> ELSE <<"/">>, p, 5000)

\* what search of provider p returns when it finds n results: results[:max_results]
ProviderOutput(p, n, query) ==
    [i \in 1..Min(n, Max(query.max_results, 0)) |-> CatalogueItem(p, i)]

\* classify, tabulated over the texts and thresholds of the runs
Classification ==
    [text \in QueryTexts, threshold \in {DefaultConfidenceThreshold} |->
        classify(text, threshold)]

NoTask == [state |-> "none", value |-> TaskValue("list", <<>>, FALSE)]

NoQuery == SearchQuery(<<>>, None, 0, "")

NoExpected == [valid |-> FALSE, results |-> <<>>, sources |-> <<>>, expires |-> 0]

\* the search coroutines that may be in flight on the router at a time
Searches == {1, 2}

NoTasks == [p \in ProviderNames |-> NoTask]

\* id is the number of the call among the calls of the run
NoCall ==
    [id |-> 0, text |-> <<>>, query_type_in |-> None, query |-> NoQuery,
     selected |-> <<>>, timed_out |-> FALSE, expected |-> NoExpected,
     window_count |-> 0]

\* a SearchResponse (kind "response") or the exception search raised (kind
\* "rate_limit", kind "error")
Response(kind, query, results, cache_hit, sources_used) ==
    [kind |-> kind, query |-> query, results |-> results,
     total_results |-> Len(results), cache_hit |-> cache_hit,
     sources_used |-> sources_used]

NoResponse == Response("none", NoQuery, <<>>, FALSE, <<>>)

----------------------------------------------------------------------------
(* SearchRouter.search *)

\* history: the admitted calls still inside the window at time t
WindowCount(t) == Cardinality({i \in DOMAIN admitted : t - admitted[i] < RateWindow})

\* history: the earlier plain-text miss a plain-text call may expect to hit
Expected(query_type_in, query) ==
    LET k == <<query.text, query.language, query.max_results>>
    IN  IF /\ query_type_in = None
           /\ k \in DOMAIN plain_history
           /\ now < plain_history[k].expires
        THEN plain_history[k]
        ELSE NoExpected

\* whether _select_providers awaits an is_available(): it asks the suggested
\* providers that are enabled, or every enabled provider, and none under
\* all_providers
AsksAvailability(cfg, classification) ==
    /\ cfg.strategy # "all_providers"
    /\ IF ConfAbove(classification.confidence, cfg.confidence_threshold)
       THEN \E i \in DOMAIN classification.suggested_providers :
               classification.suggested_providers[i] \in cfg.providers
       ELSE cfg.providers # {}

\* the search coroutine s returns or raises resp (s = 0: a call that
\* returns before it waits)
Return(s, c, tk, resp) ==
    /\ pc' = [r \in Searches |-> IF r = s THEN "idle" ELSE pc[r]]
    /\ call' = [[call EXCEPT ![s] = NoCall] EXCEPT ![0] = c]
    /\ tasks' = [[tasks EXCEPT ![s] = NoTasks] EXCEPT ![0] = tk]
    /\ response' = resp

\* the search coroutine s waits: for the is_available() of the providers
\* ("selecting") or for its fan-out ("fanout")
Wait(s, at, c, tk) ==
    /\ pc' = [pc EXCEPT ![s] = at]
    /\ call' = [call EXCEPT ![s] = c]
    /\ tasks' = [tasks EXCEPT ![s] = tk]
    /\ UNCHANGED response

\* search from the providers _select_providers returned to the point where it
\* waits for them: lines 144-157 of search and lines 211-221 of _execute_search
ExecuteSearch(s, c, selected) ==
    IF selected = <<>>
    THEN Return(s, c, NoTasks, Response("response", c.query, <<>>, FALSE, <<>>))
    ELSE Wait(s, "fanout", [c EXCEPT !.selected = selected],
              [p \in ProviderNames |->
                  IF p \in Range(selected)
                  THEN [NoTask EXCEPT !.state = "pending"] ELSE NoTask])

\* search of coroutine s from its entry to the first point where it waits: for
\* an is_available() inside _select_providers (line 142 of search_router.py) or
\* for its providers; _check_rate_limit and cache_manager.get wait for nothing
SearchStart(s, text, query_type, max_results, language) ==
    /\ pc[s] = "idle"
    /\ UNCHANGED <<config, texts, now, plain_history>>
    /\ IF ~config.enabled
       THEN /\ Return(0, [NoCall EXCEPT !.id = nCalls + 1, !.text = text,
                                        !.query_type_in = query_type],
                      NoTasks,
                      Response("response",
                               SearchQuery(text, None, DefaultMaxResults, "ru"),
                               <<>>, FALSE, <<>>))
            /\ UNCHANGED <<request_times, cache, admitted>>
       ELSE
       LET rl == _check_rate_limit(config, request_times, now)
           query == SearchQuery(text, query_type,
                                IF max_results = 0 THEN config.max_results
                                                   ELSE max_results,
                                IF language \in {None, ""} THEN config.default_language
                                                           ELSE language)
           got == CacheGet(config, cache, query, now)
           classification == Classification[query.text, config.confidence_threshold]
           classified == [query EXCEPT !.query_type = classification.primary_type]
           started == [NoCall EXCEPT !.id = nCalls + 1, !.text = text,
                                     !.query_type_in = query_type,
                                     !.query = query,
                                     !.expected = Expected(query_type, query),
                                     !.window_count = WindowCount(now)]
       IN  /\ request_times' = rl.times
           /\ IF ~rl.ok
              THEN /\ Return(0, started, NoTasks,
                             Response("rate_limit", query, <<>>, FALSE, <<>>))
                   /\ UNCHANGED <<cache, admitted>>
              ELSE /\ admitted' = IF config.rl_enabled THEN Append(admitted, now)
                                                       ELSE admitted
                   /\ cache' = got.cache
                   /\ IF got.hit
                      THEN Return(0, started, NoTasks,
                                  Response("response", query, got.results,
                                           TRUE, got.sources))
                      ELSE IF AsksAvailability(config, classification)
                      THEN Wait(s, "selecting",
                                [started EXCEPT !.query = classified], NoTasks)
                      ELSE ExecuteSearch(s, [started EXCEPT !.query = classified],
                              _select_providers(config, classification,
                                                [p \in ProviderNames |-> FALSE]))

\* search of coroutine s from the answers of is_available() to the point where
\* it waits for its providers. The awaits of _select_providers are one wait:
\* between them the coroutine touches nothing but its own list
SearchSelected(s, avail) ==
    /\ pc[s] = "selecting"
    /\ ExecuteSearch(s, call[s],
          _select_providers(config,
              Classification[call[s].query.text, config.confidence_threshold],
              avail))
    /\ UNCHANGED <<config, texts, now, request_times, cache, admitted,
                   plain_history>>

\* one safe_search task of coroutine s runs to its end
ProviderCompletes(s, p, available, raises, n) ==
    /\ pc[s] = "fanout"
    /\ tasks[s][p].state = "pending"
    /\ tasks' = [tasks EXCEPT ![s][p] =
                    [state |-> "done",
                     value |-> safe_search(config, p, call[s].query,
                                   Env(available, FALSE, raises,
                                       ProviderOutput(p, n, call[s].query)))]]
    /\ UNCHANGED <<config, texts, now, request_times, cache, pc, call, response,
                   admitted, plain_history>>

\* search of coroutine s from the end of the fan-out to its return: lines
\* 227-248 of _execute_search and lines 159-180 of search
FinishSearch(s, timed_out) ==
    \E collected \in {CollectResults(call[s].selected,
                          GatherResults(call[s].selected, tasks[s], timed_out))} :
    \E final_results \in {_aggregate_results(collected.entries, call[s].query)} :
    LET provider_results == collected.entries
        query == call[s].query
        sources == Keys(provider_results)
        k == <<query.text, query.language, query.max_results>>
        entry == [valid |-> TRUE, results |-> final_results, sources |-> sources,
                  expires |-> now + _get_ttl_for_query_type(config, query.query_type)]
    IN  /\ UNCHANGED <<config, texts, now, request_times, admitted>>
        /\ IF collected.error
           THEN /\ Return(s, [call[s] EXCEPT !.timed_out = timed_out], tasks[s],
                          Response("error", query, <<>>, FALSE, <<>>))
                /\ UNCHANGED <<cache, plain_history>>
           ELSE /\ cache' \in (IF final_results # <<>>
                               THEN UNION {CacheStore(config, cache, query,
                                                      final_results, sources, now,
                                                      micro)
                                           : micro \in Microseconds}
                               ELSE {cache})
                /\ Return(s, [call[s] EXCEPT !.timed_out = timed_out], tasks[s],
                          Response("response", query, final_results, FALSE,
                                   sources))
                /\ plain_history' =
                      IF call[s].query_type_in = None /\ final_results # <<>>
                      THEN [j \in (DOMAIN plain_history) \cup {k} |->
                                IF j = k THEN entry ELSE plain_history[j]]
                      ELSE plain_history

\* asyncio.gather of coroutine s completes: every task is done
GatherCompletes(s) ==
    /\ pc[s] = "fanout"
    /\ \A p \in Range(call[s].selected) : tasks[s][p].state = "done"
    /\ FinishSearch(s, FALSE)

\* asyncio.gather awaited without wait_for: no deadline ever expires
DeadlineNever(s) ==
    /\ pc[s] = "fanout"
    /\ FALSE
    /\ FinishSearch(s, TRUE)

\* asyncio.wait_for of coroutine s runs out of time while a task is still
\* pending
DeadlineExpires(s) ==
    /\ pc[s] = "fanout"
    /\ \E p \in Range(call[s].selected) : tasks[s][p].state = "pending"
    /\ FinishSearch(s, TRUE)

\* SearchRouter.cleanup, after the providers' __aexit__
cleanup ==
    /\ cache' = cleanup_expired(config, cache, now)
    /\ UNCHANGED <<config, texts, now, request_times, pc, call, tasks, response,
                   admitted, plain_history>>

\* time passes
Tick(d) ==
    /\ now' = now + d
    /\ UNCHANGED <<config, texts, request_times, cache, pc, call, tasks, response,
                   admitted, plain_history>>

----------------------------------------------------------------------------
(* The search runs: one router, up to two search calls in flight at a time *)

MainSteps == {TTLGeneral}

(* search_resource_manager.py: SearchResourceManager                        *)
(*                                                                         *)
(* A session is known by its identity, its index in sessions. A coroutine  *)
(* runs without interruption up to its next await: get_session and         *)
(* _cleanup_stale_sessions have none, close_provider_session has one       *)
(* (await session.close()) and close_all has one (await asyncio.gather).   *)

\* the provider names the callers of the manager use
SessionProviders == {"duckduckgo", "wikipedia"}

\* sessions created in one run
MaxSessions == 3

NoSession == 0

\* aiohttp.ClientSession(connector=..., timeout=..., trust_env=True)
ClientSession(provider_name) == [provider |-> provider_name, closed |-> FALSE]

\* SearchResourceManager.__init__
SearchResourceManager ==
    [_session_pool |-> [p \in {} |-> NoSession],
     _active_sessions |-> {},
     _is_closed |-> FALSE]

\* del d[key]
DictDel(d, key) == [k \in DOMAIN d \ {key} |-> d[k]]

\* d[key] = value
DictSet(d, key, value) ==
    [k \in DOMAIN d \cup {key} |-> IF k = key THEN value ELSE d[k]]

\* session.closed becomes True: aiohttp marks the connector closed before
\* session.close() first awaits
MarkClosed(ss, S) ==
    [s \in DOMAIN ss |-> IF s \in S THEN [ss[s] EXCEPT !.closed = TRUE] ELSE ss[s]]

\* what a manager call did: the exception it raised (or None), the session it
\* returned, the manager and the sessions afterwards
SessionOutcome(raised, session, m, ss) ==
    [raised |-> raised, session |-> session, manager |-> m, sessions |-> ss]

\* get_session without its first check: a closed manager hands out sessions
get_session_unchecked(m, ss, provider_name) ==
    IF /\ provider_name \in DOMAIN m._session_pool
       /\ ~ss[m._session_pool[provider_name]].closed
    THEN SessionOutcome(None, m._session_pool[provider_name], m, ss)
    ELSE LET stale == IF provider_name \in DOMAIN m._session_pool
                      THEN {m._session_pool[provider_name]} ELSE {}
             session == Len(ss) + 1
         IN  SessionOutcome(None, session,
                 [m EXCEPT !._session_pool = DictSet(@, provider_name, session),
                           !._active_sessions = (@ \ stale) \cup {session}],
                 Append(ss, ClientSession(provider_name)))

\* SearchResourceManager.get_session
get_session(m, ss, provider_name) ==
    IF m._is_closed
    THEN SessionOutcome("RuntimeError", NoSession, m, ss)
    ELSE IF /\ provider_name \in DOMAIN m._session_pool
            /\ ~ss[m._session_pool[provider_name]].closed
    THEN SessionOutcome(None, m._session_pool[provider_name], m, ss)
    ELSE LET stale == IF provider_name \in DOMAIN m._session_pool
                      THEN {m._session_pool[provider_name]} ELSE {}
             session == Len(ss) + 1
         IN  SessionOutcome(None, session,
                 [m EXCEPT !._session_pool = DictSet(@, provider_name, session),
                           !._active_sessions = (@ \ stale) \cup {session}],
                 Append(ss, ClientSession(provider_name)))

\* SearchResourceManager._cleanup_stale_sessions
_cleanup_stale_sessions(m, ss) ==
    LET stale_providers ==
            {p \in DOMAIN m._session_pool : ss[m._session_pool[p]].closed}
    IN  [m EXCEPT
            !._session_pool = [p \in DOMAIN @ \ stale_providers |-> @[p]],
            !._active_sessions =
                @ \ {m._session_pool[p] : p \in stale_providers}]

\* close_provider_session after its await: del self._session_pool[provider_name]
\* (KeyError when the entry is gone) and _active_sessions.discard(session)
close_provider_session_resume(m, ss, provider_name, session) ==
    IF provider_name \in DOMAIN m._session_pool
    THEN SessionOutcome(None, NoSession,
             [m EXCEPT !._session_pool = DictDel(@, provider_name),
                       !._active_sessions = @ \ {session}], ss)
    ELSE SessionOutcome("KeyError", NoSession, m, ss)

\* close_all closing the pooled sessions only
close_tasks_pooled(m, ss) ==
    {s \in {m._session_pool[p] : p \in DOMAIN m._session_pool} : ~ss[s].closed}

\* the close_tasks of close_all: session.close() of every active open session
close_tasks(m, ss) == {s \in m._active_sessions : ~ss[s].closed}

\* the end of close_all: the three clear() calls
clear_tracking(m) ==
    [m EXCEPT !._session_pool = [p \in {} |-> NoSession],
              !._active_sessions = {}]

\* SearchResourceManager.get_stats
get_stats(m, ss) ==
    [active_sessions |-> Cardinality({s \in m._active_sessions : ~ss[s].closed}),
     total_sessions_created |-> Cardinality(DOMAIN m._session_pool),
     cleanup_tasks |-> 0,
     is_closed |-> m._is_closed]

\* the record of a manager call: before is the manager and the sessions when
\* the step began, previous what get_session last returned for the provider
Outcome(op, provider_name, got, previous) ==
    [op |-> op, provider |-> provider_name, raised |-> got.raised,
     session |-> got.session, previous |-> previous,
     before |-> [manager |-> manager, sessions |-> sessions]]

NoOutcome ==
    [op |-> "none", provider |-> None, raised |-> None, session |-> NoSession,
     previous |-> NoSession,
     before |-> [manager |-> SearchResourceManager, sessions |-> <<>>]]

NotClosing == [pc |-> "none", pending |-> {}]

\* await manager.get_session(provider_name)
GetSession(provider_name) ==
    /\ \E got \in {get_session(manager, sessions, provider_name)} :
          /\ Len(got.sessions) <= MaxSessions
          /\ manager' = got.manager
          /\ sessions' = got.sessions
          /\ outcome' = Outcome("get_session", provider_name, got,
                                last_session[provider_name])
          /\ last_session' =
                IF got.raised = None
                THEN [last_session EXCEPT ![provider_name] = got.session]
                ELSE last_session
    /\ UNCHANGED <<closers, closing>>

\* await manager._cleanup_stale_sessions()
CleanupStale ==
    /\ manager' = _cleanup_stale_sessions(manager, sessions)
    /\ outcome' = Outcome("_cleanup_stale_sessions", None,
                          SessionOutcome(None, NoSession, manager', sessions),
                          NoSession)
    /\ UNCHANGED <<sessions, closers, closing, last_session>>

\* a holder of a session closes it itself ("closed externally")
CloseExternally(session) ==
    /\ session \in DOMAIN sessions
    /\ ~sessions[session].closed
    /\ sessions' = MarkClosed(sessions, {session})
    /\ outcome' = Outcome("session.close", sessions[session].provider,
                          SessionOutcome(None, session, manager, sessions'),
                          NoSession)
    /\ UNCHANGED <<manager, closers, closing, last_session>>

\* close_provider_session up to its await: nothing to do when the provider has
\* no pooled session; a pooled session found closed is dropped at once; an
\* open one is closed, and the coroutine may be suspended while it closes
CloseProviderStart(provider_name, suspends) ==
    /\ IF provider_name \notin DOMAIN manager._session_pool
       THEN /\ ~suspends
            /\ UNCHANGED <<sessions, manager, closers>>
       ELSE \E session \in {manager._session_pool[provider_name]} :
              IF sessions[session].closed
              THEN /\ ~suspends
                   /\ manager' = close_provider_session_resume(
                                     manager, sessions, provider_name,
                                     session).manager
                   /\ UNCHANGED <<sessions, closers>>
              ELSE /\ sessions' = MarkClosed(sessions, {session})
                   /\ IF suspends
                      THEN /\ closers' = closers \cup
                                  {[provider |-> provider_name,
                                    session |-> session]}
                           /\ UNCHANGED manager
                      ELSE /\ manager' = close_provider_session_resume(
                                     manager, sessions', provider_name,
                                     session).manager
                           /\ UNCHANGED closers
    /\ outcome' = Outcome("close_provider_session", provider_name,
                          SessionOutcome(None, NoSession, manager', sessions'),
                          NoSession)
    /\ UNCHANGED <<closing, last_session>>

\* close_provider_session from its await to its end
CloseProviderResume(c) ==
    /\ c \in closers
    /\ \E got \in {close_provider_session_resume(manager, sessions,
                                                 c.provider, c.session)} :
          /\ manager' = got.manager
          /\ outcome' = Outcome("close_provider_session", c.provider, got,
                                NoSession)
    /\ closers' = closers \ {c}
    /\ UNCHANGED <<sessions, closing, last_session>>

\* close_all up to its await: returns at once on a closed manager, else sets
\* _is_closed, and either has nothing to close and clears, or gathers the
\* session.close() coroutines
CloseAllStart ==
    /\ IF manager._is_closed
       THEN UNCHANGED <<manager, closing>>
       ELSE \E pending \in {close_tasks(manager, sessions)} :
              IF pending = {}
              THEN /\ manager' = clear_tracking([manager EXCEPT !._is_closed = TRUE])
                   /\ closing' = [pc |-> "done", pending |-> {}]
              ELSE /\ manager' = [manager EXCEPT !._is_closed = TRUE]
                   /\ closing' = [pc |-> "gather", pending |-> pending]
    /\ outcome' = Outcome(IF manager._is_closed THEN "close_all_again"
                          ELSE IF closing'.pc = "done" THEN "close_all"
                          ELSE "close_all_start", None,
                          SessionOutcome(None, NoSession, manager', sessions),
                          NoSession)
    /\ UNCHANGED <<sessions, closers, last_session>>

\* one session.close() task of the gather runs
CloseTaskRuns(session) ==
    /\ closing.pc = "gather"
    /\ session \in closing.pending
    /\ sessions' = MarkClosed(sessions, {session})
    /\ closing' = [closing EXCEPT !.pending = @ \ {session}]
    /\ outcome' = Outcome("session.close", sessions[session].provider,
                          SessionOutcome(None, session, manager, sessions'),
                          NoSession)
    /\ UNCHANGED <<manager, closers, last_session>>

\* close_all from its await to its end
CloseAllResume ==
    /\ closing.pc = "gather"
    /\ closing.pending = {}
    /\ manager' = clear_tracking(manager)
    /\ closing' = [pc |-> "done", pending |-> {}]
    /\ outcome' = Outcome("close_all", None,
                          SessionOutcome(None, NoSession, manager', sessions),
                          NoSession)
    /\ UNCHANGED <<sessions, closers, last_session>>

----------------------------------------------------------------------------
(* wikipedia_provider.py: WikipediaProvider

   search_url and base_url are functions of the language they were built
   from, so the object is known by its language. A search coroutine runs
   without interruption up to its next await: each _search_articles and each
   _get_article_data is one request, and another search on the same object
   may run while the answer is awaited. The Wikipedia of a language answers a
   search with candidates or with none. *)

WikiLanguages == {"ru", "en", "de"}

\* the coroutines that may be inside search of one provider at a time
WikiCallers == {1, 2}

\* candidates one _search_articles request is answered with, at most
MaxCandidates == 2

\* query.max_results of a search
WikiMaxResults == {1, 2}

\* a search coroutine: where it is ("idle", "candidates": awaiting
\* _search_articles, "article": awaiting _get_article_data), its
\* query.max_results, the languages whose search_url it has called, what they
\* answered, how many fallback languages it has tried, the number of articles
\* it goes through, the languages whose base_url it has called, and the
\* languages its results are built with
NoWikiSearch ==
    [pc |-> "idle", max_results |-> 0, queried |-> <<>>, answers |-> <<>>,
     tried |-> 0, articles |-> 0, fetched |-> <<>>, results |-> <<>>]

\* no WikipediaProvider has been constructed
NoWiki ==
    [constructed |-> FALSE, language |-> "", fallback_languages |-> <<>>,
     searches |-> [c \in WikiCallers |-> NoWikiSearch]]

\* WikipediaProvider.__init__
WikipediaProvider(cfg) ==
    [constructed |-> TRUE, language |-> cfg.language,
     fallback_languages |-> cfg.fallback_languages,
     searches |-> [c \in WikiCallers |-> NoWikiSearch]]

\* search of caller c from its entry to its first await: _search_articles
\* sends the request to self.search_url
wiki_search_start(w, c, max_results) ==
    [w EXCEPT !.searches[c] =
        [NoWikiSearch EXCEPT !.pc = "candidates", !.max_results = max_results,
                             !.queried = <<w.language>>]]

\* search of caller c from the answer of a _search_articles, n candidates, to
\* its next await or its return: with candidates it asks self.base_url for
\* the first of search_results[:query.max_results]; with none it assigns the
\* next fallback language to self.language, self.base_url and self.search_url
\* and sends the next request, or returns [] after the last one
wiki_search_candidates(w, c, n) ==
    LET s == [w.searches[c] EXCEPT !.answers = Append(@, n > 0)]
    IN  IF n > 0
        THEN [w EXCEPT !.searches[c] =
                 [s EXCEPT !.pc = "article", !.articles = Min(n, s.max_results),
                           !.fetched = <<w.language>>]]
        ELSE IF s.tried < Len(w.fallback_languages)
        THEN LET lang == w.fallback_languages[s.tried + 1]
             IN  [w EXCEPT !.language = lang,
                           !.searches[c] =
                              [s EXCEPT !.tried = @ + 1,
                                        !.queried = Append(@, lang)]]
        ELSE [w EXCEPT !.searches[c] = [s EXCEPT !.pc = "idle"]]

\* search of caller c from the answer of a _get_article_data (data: it is not
\* None) to its next await or its return: _article_to_result builds the
\* result with self.language, and the next article is asked of self.base_url
wiki_search_article(w, c, data) ==
    LET s == [w.searches[c] EXCEPT !.results =
                 IF data THEN Append(@, w.language) ELSE @]
    IN  IF Len(s.fetched) < s.articles
        THEN [w EXCEPT !.searches[c] =
                 [s EXCEPT !.fetched = Append(@, w.language)]]
        ELSE [w EXCEPT !.searches[c] = [s EXCEPT !.pc = "idle"]]

----------------------------------------------------------------------------
(* rss_provider.py: RSSProvider

   An article is [title, content, tags, published]: title and content are
   tuples of lower-case words, tags a sequence of one-word terms, published a
   time. A keyword is in a text when it is one of its words. *)

\* the additions one keyword makes to keyword_matches (and, weighted, to
\* score) for one article: title, content, every tag
KeywordHits(article, keyword) ==
    [title   |-> IF keyword \in Range(article.title) THEN 1 ELSE 0,
     content |-> IF keyword \in Range(article.content) THEN 1 ELSE 0,
     tags    |-> Cardinality({i \in DOMAIN article.tags : article.tags[i] = keyword})]

RECURSIVE Relevance(_, _)
\* the loop over keywords: score and keyword_matches of one article
Relevance(article, keywords) ==
    IF keywords = <<>> THEN [score |-> 0, keyword_matches |-> 0]
    ELSE LET rest == Relevance(article, Tail(keywords))
             h    == KeywordHits(article, Head(keywords))
         IN  [score |-> rest.score + 3 * h.title + h.content + 2 * h.tags,
              keyword_matches |->
                  rest.keyword_matches + h.title + h.content + h.tags]

\* score as the filter computes it, and the number of keywords of the query
\* found in the article, each counted once
RelevanceOncePerKeyword(article, keywords) ==
    [score |-> Relevance(article, keywords).score,
     keyword_matches |->
         Cardinality({i \in DOMAIN keywords :
             LET h == KeywordHits(article, keywords[i])
             IN  h.title + h.content + h.tags > 0})]

\* RSSProvider._filter_relevant_articles: query.text.lower().split() is
\* keywords
_filter_relevant_articles(articles, keywords) ==
    LET Scored(i) == Relevance(articles[i], keywords)
        Relevant(i) == /\ 2 * Scored(i).keyword_matches >= Len(keywords)
                       /\ Scored(i).score > 0
        kept == {i \in DOMAIN articles : Relevant(i)}
        \* relevant.sort(key=(relevance_score, published), reverse=True):
        \* the sort is stable
        Before(i, j) ==
            \/ Scored(i).score > Scored(j).score
            \/ /\ Scored(i).score = Scored(j).score
               /\ \/ articles[i].published > articles[j].published
                  \/ articles[i].published = articles[j].published /\ i < j
        Place(i) == 1 + Cardinality({j \in kept : Before(j, i)})
    IN  [k \in 1..Cardinality(kept) |->
            LET i == CHOOSE i \in kept : Place(i) = k
            IN  [title |-> articles[i].title, content |-> articles[i].content,
                 tags |-> articles[i].tags, published |-> articles[i].published,
                 relevance_score |-> Scored(i).score]]

\* datetime.timedelta.seconds: the seconds of a span without its whole days
DaySeconds == 86400

timedelta_seconds(span) == span % DaySeconds

\* the coroutines that may be inside _fetch_feed of one provider at a time
FeedCallers == {1, 2}

\* a _fetch_feed coroutine: where it is ("idle", "get": awaiting
\* session.get, "text": awaiting response.text()), its cache_key and the age
\* of the cache entry it found
NoFetch == [pc |-> "idle", cache_key |-> "", age |-> 0]

\* no RSSProvider has been constructed
NoRss ==
    [constructed |-> FALSE, cache_duration |-> 0, _cache |-> [k \in {} |-> None],
     fetches |-> [c \in FeedCallers |-> NoFetch]]

\* RSSProvider.__init__
RSSProvider(cfg) ==
    [constructed |-> TRUE, cache_duration |-> cfg.cache_duration,
     _cache |-> [k \in {} |-> None],
     fetches |-> [c \in FeedCallers |-> NoFetch]]

\* the test of _fetch_feed: is the feed of cache_key served from self._cache
FeedCached(r, cache_key, t) ==
    /\ cache_key \in DOMAIN r._cache
    /\ timedelta_seconds(t - r._cache[cache_key].timestamp) < r.cache_duration

\* what a _fetch_feed that has ended did: served is "cache", "download" or
\* "failed"; fetched is what the download did ("ok": status 200 and a body;
\* "status": another status; "timeout", "error": session.get or
\* response.text raised; "none": no download)
FeedOutcome(served, articles, fetched, age, stored) ==
    [done |-> TRUE, results |-> articles, served |-> served, fetched |-> fetched,
     age |-> age, stored |-> stored]

\* RSSProvider._fetch_feed of caller c at time t from its entry to its return
\* from the cache or to its await of session.get: lines 94-104
_fetch_feed(r, c, cache_key, t) ==
    LET age == IF cache_key \in DOMAIN r._cache
               THEN t - r._cache[cache_key].timestamp ELSE 0
    IN  IF FeedCached(r, cache_key, t)
        THEN [rss |-> r,
              ret |-> FeedOutcome("cache", r._cache[cache_key].articles, "none",
                                  age, FALSE)]
        ELSE [rss |-> [r EXCEPT !.fetches[c] =
                         [pc |-> "get", cache_key |-> cache_key, age |-> age]],
              ret |-> [done |-> FALSE]]

\* _fetch_feed of caller c from the answer of session.get to its return or
\* to its await of response.text(): lines 104-112; fetched is "ok" (status
\* 200), "status", "timeout" or "error"
_fetch_feed_response(r, c, fetched) ==
    IF fetched = "ok"
    THEN [rss |-> [r EXCEPT !.fetches[c].pc = "text"], ret |-> [done |-> FALSE]]
    ELSE [rss |-> [r EXCEPT !.fetches[c] = NoFetch],
          ret |-> FeedOutcome("failed", <<>>, fetched, r.fetches[c].age, FALSE)]

\* _fetch_feed of caller c at time t from the answer of response.text() to
\* its return: lines 112-125; the articles of a download are known by the
\* time it is stored
_fetch_feed_text(r, c, t, fetched) ==
    LET cache_key == r.fetches[c].cache_key
    IN  IF fetched = "ok"
        THEN [rss |-> [r EXCEPT !.fetches[c] = NoFetch,
                                !._cache =
                          [k \in DOMAIN r._cache \cup {cache_key} |->
                              IF k = cache_key
                              THEN [articles |-> <<t>>, timestamp |-> t]
                              ELSE r._cache[k]]],
              ret |-> FeedOutcome("download", <<t>>, "ok", r.fetches[c].age, TRUE)]
        ELSE [rss |-> [r EXCEPT !.fetches[c] = NoFetch],
              ret |-> FeedOutcome("failed", <<>>, fetched, r.fetches[c].age, FALSE)]

----------------------------------------------------------------------------
(* search_router.py: the threads of chat_completion inside
   SearchRouter._check_rate_limit *)

Threads == {1, 2}

NoLimiter == [pc |-> "idle", current_time |-> 0, kept |-> <<>>]

\* lines 315-318: current_time = time.time()
LimiterReads(t) ==
    /\ limiters[t].pc = "idle"
    /\ config.rl_enabled
    /\ limiters' = [limiters EXCEPT ![t] =
          [NoLimiter EXCEPT !.pc = "filter", !.current_time = now]]
    /\ UNCHANGED <<request_times, admitted>>

\* lines 319-325 up to the assignment: the thread builds the list of the
\* request times less than a minute older than its current_time
LimiterFilters(t) ==
    /\ limiters[t].pc = "filter"
    /\ limiters' = [limiters EXCEPT ![t] =
          [@ EXCEPT !.pc = "assign",
                    !.kept = LET Recent(x) == limiters[t].current_time - x < RateWindow
                             IN  SelectSeq(request_times, Recent)]]
    /\ UNCHANGED <<request_times, admitted>>

\* line 322: self._request_times = [...]
LimiterAssigns(t) ==
    /\ limiters[t].pc = "assign"
    /\ request_times' = limiters[t].kept
    /\ limiters' = [limiters EXCEPT ![t].pc = "check"]
    /\ UNCHANGED admitted

\* lines 328-329: the limit test; True leaves the thread before the append
LimiterChecks(t) ==
    /\ limiters[t].pc = "check"
    /\ limiters' = [limiters EXCEPT ![t] =
          IF Len(request_times) >= config.requests_per_minute
          THEN NoLimiter
          ELSE [limiters[t] EXCEPT !.pc = "append"]]
    /\ UNCHANGED <<request_times, admitted>>

\* lines 332-333: self._request_times.append(current_time); return True
LimiterAppends(t) ==
    /\ limiters[t].pc = "append"
    /\ request_times' = Append(request_times, limiters[t].current_time)
    /\ admitted' = Append(admitted, limiters[t].current_time)
    /\ limiters' = [limiters EXCEPT ![t] = NoLimiter]

----------------------------------------------------------------------------
(* search_resource_manager.py: the module-level manager *)

\* the coroutines calling get_global_resource_manager
Callers == {1, 2}

\* managers created in one run
MaxManagers == 3

NoManager == 0

NoCaller ==
    [pc |-> "idle", returned |-> NoManager, created |-> FALSE,
     saw |-> [global |-> NoManager, closed |-> FALSE]]

\* a getter that makes a manager on every call
always_new_manager(g, insts) ==
    [global |-> Len(insts) + 1,
     instances |-> Append(insts, SearchResourceManager),
     created |-> TRUE]

\* the body of get_global_resource_manager under the lock, g being
\* _global_resource_manager
get_global_resource_manager(g, insts) ==
    IF g = NoManager \/ insts[g]._is_closed
    THEN [global |-> Len(insts) + 1,
          instances |-> Append(insts, SearchResourceManager),
          created |-> TRUE]
    ELSE [global |-> g, instances |-> insts, created |-> FALSE]

\* async with _resource_manager_lock: the caller takes the lock when it is free
GlobalAcquire(c) ==
    /\ callers[c].pc = "idle"
    /\ ~_resource_manager_lock
    /\ _resource_manager_lock' = TRUE
    /\ callers' = [callers EXCEPT ![c].pc = "locked"]
    /\ UNCHANGED <<instances, _global_resource_manager>>

\* the body under the lock, the release and return _global_resource_manager
GlobalReturn(c) ==
    /\ callers[c].pc = "locked"
    /\ \E got \in {get_global_resource_manager(_global_resource_manager,
                                                instances)} :
          /\ Len(got.instances) <= MaxManagers
          /\ instances' = got.instances
          /\ _global_resource_manager' = got.global
          /\ callers' = [callers EXCEPT ![c] =
                [pc |-> "idle", returned |-> got.global, created |-> got.created,
                 saw |-> [global |-> _global_resource_manager,
                          closed |-> IF _global_resource_manager = NoManager
                                     THEN FALSE
                                     ELSE instances[_global_resource_manager]
                                              ._is_closed]]]
    /\ _resource_manager_lock' = FALSE

\* a caller closes the manager it was handed: close_all with no session open
ManagerCloseAll(c) ==
    /\ callers[c].returned # NoManager
    /\ instances' = [instances EXCEPT ![callers[c].returned] =
                        clear_tracking([@ EXCEPT !._is_closed = TRUE])]
    /\ UNCHANGED <<_global_resource_manager, _resource_manager_lock, callers>>

\* _cleanup_global_manager
_cleanup_global_manager ==
    /\ IF /\ _global_resource_manager # NoManager
          /\ ~instances[_global_resource_manager]._is_closed
       THEN instances' = [instances EXCEPT ![_global_resource_manager] =
                            clear_tracking([@ EXCEPT !._is_closed = TRUE])]
       ELSE UNCHANGED instances
    /\ UNCHANGED <<_global_resource_manager, _resource_manager_lock, callers>>

\* the state after import and construction: no session, nothing pooled, no
\* global manager
InitManager ==
    /\ sessions = <<>>
    /\ manager = SearchResourceManager
    /\ closers = {}
    /\ closing = NotClosing
    /\ last_session = [p \in SessionProviders |-> NoSession]
    /\ outcome = NoOutcome
    /\ instances = <<>>
    /\ _global_resource_manager = NoManager
    /\ _resource_manager_lock = FALSE
    /\ callers = [c \in Callers |-> NoCaller]

NoArg == [kind |-> "none"]

NoRet == [done |-> FALSE, results |-> <<>>]

InitRouter ==
    /\ now = 0
    /\ request_times = <<>>
    /\ cache = [k \in {} |-> None]
    /\ pc = [s \in Searches |-> "idle"]
    /\ call = [s \in Searches \cup {0} |-> NoCall]
    /\ tasks = [s \in Searches \cup {0} |-> NoTasks]
    /\ response = NoResponse
    /\ nCalls = 0
    /\ admitted = <<>>
    /\ plain_history = [k \in {} |-> None]
    /\ InitManager
    /\ writers = [w \in Writers |-> NoWriter]
    /\ wiki = NoWiki
    /\ rss = NoRss
    /\ limiters = [t \in Threads |-> NoLimiter]

Init ==
    /\ \E r \in MainRuns : config = r.config /\ texts = r.texts
    /\ InitRouter
    /\ arg = NoArg
    /\ ret = NoRet

\* a caller enters search; the coroutine is the first one free
AnyCall ==
    \E s \in Searches, text \in texts, query_type \in QueryTypeInputs,
       max_results \in MaxResultsInputs, language \in LanguageInputs :
         /\ \A r \in Searches : pc[r] = "idle" => s <= r
         /\ SearchStart(s, text, query_type, max_results, language)

Call ==
    /\ nCalls < MaxCalls
    /\ nCalls' = nCalls + 1
    /\ AnyCall
    /\ UNCHANGED <<arg, ret, managerVars, writers, wiki, rss, limiters>>

Selected ==
    /\ \E s \in Searches, avail \in [ProviderNames -> BOOLEAN] :
          SearchSelected(s, avail)
    /\ UNCHANGED <<nCalls, arg, ret, managerVars, writers, wiki, rss, limiters>>

Provider ==
    /\ \E s \in Searches, p \in ProviderNames, available \in BOOLEAN,
          raises \in BOOLEAN, n \in 0..MaxPerProvider :
            ProviderCompletes(s, p, available, raises, n)
    /\ UNCHANGED <<nCalls, arg, ret, managerVars, writers, wiki, rss, limiters>>

Gathered(s) == GatherCompletes(s) /\ UNCHANGED <<nCalls, arg, ret, managerVars, writers, wiki, rss, limiters>>

Deadline(s) == DeadlineExpires(s) /\ UNCHANGED <<nCalls, arg, ret, managerVars, writers, wiki, rss, limiters>>

AnyGathered == \E s \in Searches : Gathered(s)

AnyDeadline == \E s \in Searches : Deadline(s)

Cleanup == cleanup /\ UNCHANGED <<nCalls, arg, ret, managerVars, writers, wiki, rss, limiters>>

Clock ==
    /\ \E d \in MainSteps : now + d <= MaxNow /\ Tick(d)
    /\ UNCHANGED <<nCalls, arg, ret, managerVars, writers, wiki, rss, limiters>>

Next ==
    Call \/ Selected \/ Provider \/ AnyGathered \/ AnyDeadline \/ Cleanup \/ Clock

Spec == Init /\ [][Next]_vars

----------------------------------------------------------------------------
(* The fan-out runs: few search calls, any number of selected providers *)

FanoutRuns ==
    MainRuns \cup
    {[config |-> DefaultConfig, texts |-> {<<"python">>}],
     [config |-> [DefaultConfig EXCEPT !.providers = {"duckduckgo", "wikipedia"}],
      texts |-> {<<"python">>}],
     [config |-> [DefaultConfig EXCEPT !.strategy = "all_providers",
                                       !.providers = {"rss"}],
      texts |-> {<<"today", "news">>}]}

InitFanout ==
    /\ \E r \in FanoutRuns : config = r.config /\ texts = r.texts
    /\ InitRouter
    /\ arg = NoArg
    /\ ret = NoRet

FanoutCall ==
    /\ nCalls < MaxFanoutCalls
    /\ nCalls' = nCalls + 1
    /\ AnyCall
    /\ UNCHANGED <<arg, ret, managerVars, writers, wiki, rss, limiters>>

NextFanout == FanoutCall \/ Selected \/ Provider \/ AnyGathered \/ AnyDeadline

SpecFanout == InitFanout /\ [][NextFanout]_vars

\* the event loop runs its timers and resumes a finished gather; nothing makes
\* a provider answer
FairSpec ==
    SpecFanout /\ \A s \in Searches : WF_vars(Deadline(s)) /\ WF_vars(Gathered(s))

----------------------------------------------------------------------------
(* The rate-limit runs: a router with rate limiting on and no provider enabled *)

RateSteps == {20, 40}

InitRate ==
    /\ \E n \in RateLimits :
          config = [DefaultConfig EXCEPT !.providers = {}, !.rl_enabled = TRUE,
                                         !.requests_per_minute = n]
    /\ texts = RateTexts
    /\ InitRouter
    /\ arg = NoArg
    /\ ret = NoRet

RateCall == AnyCall /\ UNCHANGED <<nCalls, arg, ret, managerVars, writers, wiki, rss, limiters>>

RateClock ==
    /\ \E d \in RateSteps : now + d <= MaxRateNow /\ Tick(d)
    /\ UNCHANGED <<nCalls, arg, ret, managerVars, writers, wiki, rss, limiters>>

NextRate == RateCall \/ RateClock

SpecRate == InitRate /\ [][NextRate]_vars

----------------------------------------------------------------------------
(* The aggregation runs: _aggregate_results on the provider_results of one
   fan-out *)

\* the providers of the fan-out, in the order of the dict, and the query type
AggCases ==
    {[names |-> <<"duckduckgo", "wikipedia">>, query_type |-> "factual"],
     [names |-> <<"wikipedia", "duckduckgo">>, query_type |-> "factual"],
     [names |-> <<"duckduckgo", "wikipedia">>, query_type |-> "general"],
     [names |-> <<"rss", "duckduckgo">>, query_type |-> "current"]}

AggUrls == {<<>>, <<"a">>, <<"A", "/">>, <<"/">>}

\* 0.5, 0.75 and 0.9: 0.75 * 1.2 is the float before 0.9
AggScores == {5000, 7500, 9000}

AggMaxResults == {2, DefaultMaxResults}

\* the results of one fan-out in the order the providers are iterated: owner is
\* the index of the provider that returned the result
FlatResults ==
    UNION {{f \in [1..n -> [url : AggUrls, score : AggScores, owner : {1, 2}]] :
                \A i \in 1..(n - 1) : f[i].owner <= f[i + 1].owner}
           : n \in 0..MaxAggResults}

\* the positions of f that provider i returned
OwnedBy(f, i) == Keep([j \in DOMAIN f |-> j], {j \in DOMAIN f : f[j].owner = i})

\* provider_results as _execute_search builds it; a result's title is its place
\* in the iteration over providers and their results
AggInput(c, f, m) ==
    [kind |-> "aggregate",
     provider_results |->
        [i \in DOMAIN c.names |->
            [name |-> c.names[i],
             results |-> LET own == OwnedBy(f, i)
                         IN  [j \in DOMAIN own |->
                                 SearchResult(own[j], f[own[j]].url, c.names[i],
                                              f[own[j]].score)]]],
     query |-> SearchQuery(<<"python">>, c.query_type, m, "ru")]

InitAgg ==
    /\ config = DefaultConfig
    /\ texts = {}
    /\ InitRouter
    /\ arg \in {AggInput(c, f, m) : c \in AggCases, f \in FlatResults,
                                     m \in AggMaxResults}
    /\ ret = NoRet

Aggregate ==
    /\ ~ret.done
    /\ ret' = [done |-> TRUE,
               results |-> _aggregate_results(arg.provider_results, arg.query)]
    /\ UNCHANGED <<routerVars, arg, managerVars, writers, wiki, rss, limiters>>

NextAgg == Aggregate

SpecAgg == InitAgg /\ [][NextAgg]_vars

----------------------------------------------------------------------------
(* The scoring runs: one result through safe_search and _aggregate_results *)

\* provider-local scores: 0.0, 0.1 .. 1.0
LocalScores == {i * 1000 : i \in 0..MaxLocalScore}

\* configured weights: -0.5, 0, 0.5, 0.7, 1.0, 1.5, 2.0
ScoreWeights == {-5, 0, 5, 7, 10, 15, 20}

InitScore ==
    /\ config = DefaultConfig
    /\ texts = {}
    /\ InitRouter
    /\ arg \in [kind : {"score"}, provider : ProviderNames, weight : ScoreWeights,
                local_score : LocalScores, query_type : QueryTypes]
    /\ ret = NoRet

Score ==
    /\ ~ret.done
    /\ LET cfg == [config EXCEPT !.weight[arg.provider] = arg.weight]
           query == SearchQuery(<<"python">>, arg.query_type, DefaultMaxResults, "ru")
           found == <<SearchResult(1, <<"a">>, arg.provider, arg.local_score)>>
           value == safe_search(cfg, arg.provider, query,
                                Env(TRUE, FALSE, FALSE, found))
           collected == CollectResults(<<arg.provider>>, <<value>>)
       IN  ret' = [done |-> TRUE,
                   results |-> _aggregate_results(collected.entries, query)]
    /\ UNCHANGED <<routerVars, arg, managerVars, writers, wiki, rss, limiters>>

NextScore == Score

SpecScore == InitScore /\ [][NextScore]_vars

----------------------------------------------------------------------------
(* The cache runs: one CacheManager; get, store, cleanup_expired and
   invalidate_by_type called one after the other *)

\* the offset of the host's local time (datetime.now()) from UTC
\* (datetime('now') of SQLite), in seconds: UTC-5, UTC, UTC+3
TimezoneOffsets == {-18000, 0, 10800}

CacheQueries ==
    {SearchQuery(<<"a">>, "current", DefaultMaxResults, "ru"),
     SearchQuery(<<"a">>, None, DefaultMaxResults, "ru")}

\* results as _aggregate_results leaves them: the provider is in the metadata
CacheResults ==
    {<<[SearchResult(1, <<"a">>, "rss", 5750) EXCEPT !.provider = "rss"]>>,
     <<[SearchResult(1, <<"b">>, "duckduckgo", 9000) EXCEPT !.provider = "duckduckgo"],
       [SearchResult(2, <<>>, "rss", 5750) EXCEPT !.provider = "rss"]>>}

GetFaults == {"none", "connect", "corrupt"}

StoreFaults == {"none", "execute"}

CacheSteps == {1800}

\* the call made last in a cache run: what it was given, the table it found,
\* and the call before it
CacheArg(kind, query, results, sources, micro, fault, before, prev) ==
    [kind |-> kind, query |-> query, results |-> results, sources |-> sources,
     micro |-> micro, fault |-> fault, before |-> before,
     prev_kind |-> prev.kind, prev_query |-> prev.query,
     prev_results |-> prev.results, prev_sources |-> prev.sources,
     prev_fault |-> prev.fault]

NoCacheArg ==
    [kind |-> "none", query |-> NoQuery, results |-> <<>>, sources |-> <<>>,
     micro |-> 0, fault |-> "none", before |-> [k \in {} |-> None],
     prev_kind |-> "none", prev_query |-> NoQuery, prev_results |-> <<>>,
     prev_sources |-> <<>>, prev_fault |-> "none"]

CacheRet(raised, hit, results, sources) ==
    [done |-> TRUE, raised |-> raised, hit |-> hit, results |-> results,
     sources |-> sources]

\* one call of CacheManager.get
GetCall(query, fault) ==
    /\ \E got \in {get(config, cache, query, now, fault)} :
          /\ cache' = got.cache
          /\ arg' = CacheArg("get", query, <<>>, <<>>, 0, fault, cache, arg)
          /\ ret' = CacheRet(got.raised, got.hit, got.results, got.sources)
    /\ nCalls' = nCalls + 1
    /\ UNCHANGED <<config, texts, now, request_times, pc, call, tasks, response,
                   admitted, plain_history, managerVars, writers, wiki, rss, limiters>>

\* one call of CacheManager.store; the sources are the providers of the results
StoreCall(query, results, micro, fault) ==
    /\ \E sources \in {<<results[1].provider>>} :
          /\ cache' \in store(config, cache, query, results, sources, now, micro, fault)
          /\ arg' = CacheArg("store", query, results, sources, micro, fault, cache, arg)
          /\ ret' = CacheRet(FALSE, FALSE, <<>>, <<>>)
    /\ nCalls' = nCalls + 1
    /\ UNCHANGED <<config, texts, now, request_times, pc, call, tasks, response,
                   admitted, plain_history, managerVars, writers, wiki, rss, limiters>>

\* time passes between two calls
CacheTick(d) ==
    /\ Tick(d)
    /\ arg' = CacheArg("tick", NoQuery, <<>>, <<>>, 0, "none", cache, arg)
    /\ ret' = CacheRet(FALSE, FALSE, <<>>, <<>>)
    /\ UNCHANGED <<nCalls, managerVars, writers, wiki, rss, limiters>>

\* one call of CacheManager.cleanup_expired
CleanupCall ==
    /\ cache' = cleanup_expired(config, cache, now)
    /\ arg' = CacheArg("cleanup", NoQuery, <<>>, <<>>, 0, "none", cache, arg)
    /\ ret' = CacheRet(FALSE, FALSE, <<>>, <<>>)
    /\ nCalls' = nCalls + 1
    /\ UNCHANGED <<config, texts, now, request_times, pc, call, tasks, response,
                   admitted, plain_history, managerVars, writers, wiki, rss, limiters>>

\* one call of CacheManager.invalidate_by_type
InvalidateCall(query_type) ==
    /\ cache' = invalidate_by_type(config, cache, query_type)
    /\ arg' = CacheArg("invalidate", [NoQuery EXCEPT !.query_type = query_type],
                       <<>>, <<>>, 0, "none", cache, arg)
    /\ ret' = CacheRet(FALSE, FALSE, <<>>, <<>>)
    /\ nCalls' = nCalls + 1
    /\ UNCHANGED <<config, texts, now, request_times, pc, call, tasks, response,
                   admitted, plain_history, managerVars, writers, wiki, rss, limiters>>

InitCache ==
    /\ \E z \in TimezoneOffsets : config = [DefaultConfig EXCEPT !.tz_offset = z]
    /\ texts = {}
    /\ InitRouter
    /\ arg = NoCacheArg
    /\ ret = CacheRet(FALSE, FALSE, <<>>, <<>>)

CacheGetCall ==
    /\ nCalls < MaxCacheOps
    /\ \E query \in CacheQueries, fault \in GetFaults : GetCall(query, fault)

CacheStoreCall ==
    /\ nCalls < MaxCacheOps
    /\ \E query \in CacheQueries, results \in CacheResults, micro \in Microseconds,
          fault \in StoreFaults :
          StoreCall(query, results, micro, fault)

CacheCleanupCall == nCalls < MaxCacheOps /\ CleanupCall

CacheInvalidateCall ==
    /\ nCalls < MaxCacheOps
    /\ \E query_type \in {None, "current"} : InvalidateCall(query_type)

CacheClock == \E d \in CacheSteps : now + d <= MaxCacheNow /\ CacheTick(d)

NextCache ==
    CacheGetCall \/ CacheStoreCall \/ CacheCleanupCall \/ CacheInvalidateCall
        \/ CacheClock

SpecCache == InitCache /\ [][NextCache]_vars

----------------------------------------------------------------------------
(* The eviction runs: a CacheManager with a small max_entries *)

EvictMaxEntries == {1, 2}

EvictQueries ==
    {SearchQuery(<<"a">>, "current", DefaultMaxResults, "ru"),
     SearchQuery(<<"b">>, "current", DefaultMaxResults, "ru"),
     SearchQuery(<<"a">>, None, DefaultMaxResults, "ru")}

EvictResults ==
    {<<[SearchResult(1, <<"a">>, "rss", 5750) EXCEPT !.provider = "rss"]>>}

InitEvict ==
    /\ \E m \in EvictMaxEntries : config = [DefaultConfig EXCEPT !.max_entries = m]
    /\ texts = {}
    /\ InitRouter
    /\ arg = NoCacheArg
    /\ ret = CacheRet(FALSE, FALSE, <<>>, <<>>)

EvictGetCall ==
    /\ nCalls < MaxEvictOps
    /\ \E query \in EvictQueries : GetCall(query, "none")

EvictStoreCall ==
    /\ nCalls < MaxEvictOps
    /\ \E query \in EvictQueries, results \in EvictResults, micro \in Microseconds :
          StoreCall(query, results, micro, "none")

EvictClock == \E d \in CacheSteps : now + d <= MaxEvictNow /\ CacheTick(d)

NextEvict == EvictGetCall \/ EvictStoreCall \/ EvictClock

SpecEvict == InitEvict /\ [][NextEvict]_vars

----------------------------------------------------------------------------
(* The session runs: concurrent calls on one SearchResourceManager *)

InitSessions ==
    /\ config = DefaultConfig
    /\ texts = {}
    /\ InitRouter
    /\ arg = NoArg
    /\ ret = NoRet

SessionGet ==
    /\ \E p \in SessionProviders : GetSession(p)
    /\ UNCHANGED <<routerVars, arg, ret, globalVars, writers, wiki, rss, limiters>>

SessionCleanup == CleanupStale /\ UNCHANGED <<routerVars, arg, ret, globalVars, writers, wiki, rss, limiters>>

SessionExternalClose ==
    /\ \E s \in 1..MaxSessions : CloseExternally(s)
    /\ UNCHANGED <<routerVars, arg, ret, globalVars, writers, wiki, rss, limiters>>

SessionCloseProvider ==
    /\ \E p \in SessionProviders, suspends \in BOOLEAN :
          CloseProviderStart(p, suspends)
    /\ UNCHANGED <<routerVars, arg, ret, globalVars, writers, wiki, rss, limiters>>

SessionCloseProviderResume ==
    /\ \E c \in closers : CloseProviderResume(c)
    /\ UNCHANGED <<routerVars, arg, ret, globalVars, writers, wiki, rss, limiters>>

SessionCloseAll == CloseAllStart /\ UNCHANGED <<routerVars, arg, ret, globalVars, writers, wiki, rss, limiters>>

SessionCloseTask ==
    /\ \E s \in 1..MaxSessions : CloseTaskRuns(s)
    /\ UNCHANGED <<routerVars, arg, ret, globalVars, writers, wiki, rss, limiters>>

SessionCloseAllResume ==
    CloseAllResume /\ UNCHANGED <<routerVars, arg, ret, globalVars, writers, wiki, rss, limiters>>

NextSessions ==
    \/ SessionGet
    \/ SessionCleanup
    \/ SessionExternalClose
    \/ SessionCloseProvider
    \/ SessionCloseProviderResume
    \/ SessionCloseAll
    \/ SessionCloseTask
    \/ SessionCloseAllResume

SpecSessions == InitSessions /\ [][NextSessions]_vars

----------------------------------------------------------------------------
(* The session-limit runs: the session runs on a manager constructed with a
   small max_sessions. __init__ stores max_sessions and only get_stats reads
   it, so it is kept with the configuration the manager was built from. *)

SessionLimits == {1, 2}

InitLimit ==
    /\ config = DefaultConfig
    /\ texts = {}
    /\ InitRouter
    /\ arg \in [kind : {"manager"}, max_sessions : SessionLimits]
    /\ ret = NoRet

SpecLimit == InitLimit /\ [][NextSessions]_vars

----------------------------------------------------------------------------
(* The global-manager runs: concurrent get_global_resource_manager calls *)

GlobalEnter ==
    /\ \E c \in Callers : GlobalAcquire(c)
    /\ UNCHANGED <<routerVars, arg, ret, sessionVars, writers, wiki, rss, limiters>>

GlobalLeave ==
    /\ \E c \in Callers : GlobalReturn(c)
    /\ UNCHANGED <<routerVars, arg, ret, sessionVars, writers, wiki, rss, limiters>>

GlobalClose ==
    /\ \E c \in Callers : ManagerCloseAll(c)
    /\ UNCHANGED <<routerVars, arg, ret, sessionVars, writers, wiki, rss, limiters>>

GlobalCleanup ==
    _cleanup_global_manager /\ UNCHANGED <<routerVars, arg, ret, sessionVars, writers, wiki, rss, limiters>>

NextGlobal == GlobalEnter \/ GlobalLeave \/ GlobalClose \/ GlobalCleanup

SpecGlobal == InitSessions /\ [][NextGlobal]_vars

----------------------------------------------------------------------------
(* The selection runs: _select_providers on one classified query *)

\* confidence_threshold of the classification section: 0.5, 0.7
SelectThresholds == {5, 7}

SelectStrategies == {"smart_routing", "all_providers"}

InitSelect ==
    /\ config = DefaultConfig
    /\ texts = {}
    /\ InitRouter
    /\ arg \in [kind : {"select"}, text : QueryTexts,
                threshold : SelectThresholds, strategy : SelectStrategies,
                providers : SUBSET ProviderNames,
                avail : [ProviderNames -> BOOLEAN]]
    /\ ret = NoRet

Select ==
    /\ ~ret.done
    /\ LET cfg == [config EXCEPT !.strategy = arg.strategy,
                                 !.providers = arg.providers,
                                 !.confidence_threshold = arg.threshold]
           classification == classify(arg.text, arg.threshold)
       IN  ret' = [done |-> TRUE,
                   results |-> _select_providers(cfg, classification, arg.avail)]
    /\ UNCHANGED <<routerVars, arg, managerVars, writers, wiki, rss, limiters>>

NextSelect == Select

SpecSelect == InitSelect /\ [][NextSelect]_vars

----------------------------------------------------------------------------
(* The provider runs: one safe_search call of one provider *)

\* configured weights of the provider: 0.5, 1.0, 2.0
SafeWeights == {5, 10, 20}

\* query texts: blank, and a word
SafeTexts == {<<>>, <<"python">>}

\* max_results of the query
SafeMaxResults == {-1, 0, 1, 2}

InitSafe ==
    /\ config = DefaultConfig
    /\ texts = {}
    /\ InitRouter
    /\ arg \in [kind : {"safe_search"}, enabled : BOOLEAN, weight : SafeWeights,
                text : SafeTexts, max_results : SafeMaxResults,
                available : BOOLEAN, unavailable_raises : BOOLEAN,
                raises : BOOLEAN, n : 0..MaxPerProvider + 1]
    /\ ret = NoRet

SafeSearch ==
    /\ ~ret.done
    /\ LET p == "duckduckgo"
           cfg == [config EXCEPT !.providers = IF arg.enabled THEN {p} ELSE {},
                                 !.weight[p] = arg.weight]
           query == SearchQuery(arg.text, None, arg.max_results, "ru")
           env == Env(arg.available, arg.unavailable_raises, arg.raises,
                      [i \in 1..arg.n |-> CatalogueItem(p, i)])
           value == safe_search(cfg, p, query, env)
       IN  ret' = [done |-> TRUE, results |-> value.results, kind |-> value.kind,
                   invoked |-> safe_search_invokes(cfg, p, query, env),
                   output |-> env.output]
    /\ UNCHANGED <<routerVars, arg, managerVars, writers, wiki, rss, limiters>>

NextSafe == SafeSearch

SpecSafe == InitSafe /\ [][NextSafe]_vars

----------------------------------------------------------------------------
(* The classifier runs: classify on one text *)

\* words of a classified text
MaxWords == 3

ClassifyWords == {"istoriya", "svezhij", "zachem", "novosti", "python", "today"}

ClassifyTexts == UNION {[1..n -> ClassifyWords] : n \in 0..MaxWords}

InitClassify ==
    /\ config = DefaultConfig
    /\ texts = {}
    /\ InitRouter
    /\ arg \in [kind : {"classify"}, text : ClassifyTexts]
    /\ ret = NoRet

Classify ==
    /\ ~ret.done
    /\ ret' = [done |-> TRUE, results |-> <<>>,
               report |-> classify(arg.text, config.confidence_threshold)]
    /\ UNCHANGED <<routerVars, arg, managerVars, writers, wiki, rss, limiters>>

NextClassify == Classify

SpecClassify == InitClassify /\ [][NextClassify]_vars

----------------------------------------------------------------------------
(* The concurrent-store runs: store calls on two connections to one cache
   database, a call of one running between the commits of the other *)

\* store calls in one run
MaxStores == 3

InitStores ==
    /\ \E m \in EvictMaxEntries : config = [DefaultConfig EXCEPT !.max_entries = m]
    /\ texts = {}
    /\ InitRouter
    /\ arg = NoArg
    /\ ret = NoRet

StoresInsert ==
    /\ nCalls < MaxStores
    /\ nCalls' = nCalls + 1
    /\ \E w \in Writers, query \in EvictQueries, results \in EvictResults,
          micro \in Microseconds :
          StoreInsert(w, query, results, <<results[1].provider>>, micro)
    /\ UNCHANGED <<config, texts, now, request_times, pc, call, tasks, response,
                   admitted, plain_history, arg, ret, managerVars, wiki, rss, limiters>>

StoresCount ==
    /\ \E w \in Writers : StoreCount(w)
    /\ UNCHANGED <<config, texts, now, request_times, pc, call, tasks, response,
                   nCalls, admitted, plain_history, arg, ret, managerVars, wiki, rss, limiters>>

StoresDelete ==
    /\ \E w \in Writers : StoreDelete(w)
    /\ UNCHANGED <<config, texts, now, request_times, pc, call, tasks, response,
                   nCalls, admitted, plain_history, arg, ret, managerVars, wiki, rss, limiters>>

StoresClock ==
    /\ \E d \in CacheSteps : now + d <= MaxEvictNow /\ Tick(d)
    /\ UNCHANGED <<nCalls, arg, ret, managerVars, writers, wiki, rss, limiters>>

NextStores == StoresInsert \/ StoresCount \/ StoresDelete \/ StoresClock

SpecStores == InitStores /\ [][NextStores]_vars

----------------------------------------------------------------------------
(* ai_providers_with_search.py: WebSearchEnabledAIProvider._should_perform_search

   A message is [role, content], the content a tuple of words. Of the phrases
   and patterns of the source the vocabulary has one word each. *)

\* business_evaluation_indicators found in the content
HasBusinessIndicator(content) == "investment" \in Range(content)

\* a trigger of auto_search_triggers is in the content
HasTrigger(content, triggers) == Range(content) \cap triggers # {}

\* one of the current_event_patterns matches
MatchesCurrentEvent(content) == Range(content) \cap {"today", "news"} # {}

\* one of the factual_patterns matches: a question word with a "?" after it
MatchesFactual(content) ==
    \E i, j \in DOMAIN content : i < j /\ content[i] = "what" /\ content[j] = "?"

\* one of the current-context words is in the content
HasCurrentContext(content) == Range(content) \cap {"now", "today"} # {}

\* the content of the last message of role user, "" when there is none
LastUserMessage(messages) ==
    LET users == {i \in DOMAIN messages : messages[i].role = "user"}
    IN  IF users = {} THEN <<>>
        ELSE messages[CHOOSE i \in users : \A j \in users : j <= i].content

\* WebSearchEnabledAIProvider._should_perform_search; search_config is
\* config['ai_web_search_integration']
_should_perform_search(search_config, messages) ==
    IF ~search_config.enabled THEN FALSE
    ELSE IF messages = <<>> THEN FALSE
    ELSE LET last_user_message == LastUserMessage(messages)
         IN  IF last_user_message = <<>> THEN FALSE
             ELSE IF HasBusinessIndicator(last_user_message) THEN FALSE
             ELSE IF HasTrigger(last_user_message,
                                search_config.auto_search_triggers) THEN TRUE
             ELSE IF MatchesCurrentEvent(last_user_message) THEN TRUE
             ELSE /\ MatchesFactual(last_user_message)
                  /\ HasCurrentContext(last_user_message)

\* messages of a conversation
MaxMessages == 2

\* words of the content of a message
MaxContentWords == 2

ContentWords == {"investment", "today", "what", "?", "now", "find"}

Contents == UNION {[1..n -> ContentWords] : n \in 0..MaxContentWords}

Messages ==
    [role : {"user"}, content : Contents]
        \cup [role : {"assistant"}, content : {<<"today">>}]

InitShould ==
    /\ config = DefaultConfig
    /\ texts = {}
    /\ InitRouter
    /\ arg \in [kind : {"should_search"}, enabled : BOOLEAN,
                force_search_all : BOOLEAN,
                messages : UNION {[1..n -> Messages] : n \in 0..MaxMessages}]
    /\ ret = NoRet

ShouldSearch ==
    /\ ~ret.done
    /\ ret' = [done |-> TRUE, results |-> <<>>,
               value |-> _should_perform_search(
                             [enabled |-> arg.enabled,
                              force_search_all |-> arg.force_search_all,
                              auto_search_triggers |-> {"find"}],
                             arg.messages)]
    /\ UNCHANGED <<routerVars, arg, managerVars, writers, wiki, rss, limiters>>

NextShould == ShouldSearch

SpecShould == InitShould /\ [][NextShould]_vars

\* search calls on one WikipediaProvider
MaxWikiCalls == 2

WikipediaConfigs ==
    [kind : {"wikipedia"}, language : WikiLanguages,
     fallback_languages : UNION {[1..n -> WikiLanguages] : n \in 0..2}]

InitWiki ==
    /\ config = DefaultConfig
    /\ texts = {}
    /\ InitRouter
    /\ arg \in WikipediaConfigs
    /\ ret = NoRet

WikiConstruct ==
    /\ ~wiki.constructed
    /\ wiki' = WikipediaProvider(arg)
    /\ UNCHANGED <<routerVars, arg, ret, managerVars, writers, rss, limiters>>

\* a caller enters search
WikiSearchStart ==
    /\ wiki.constructed
    /\ nCalls < MaxWikiCalls
    /\ nCalls' = nCalls + 1
    /\ \E c \in WikiCallers, max_results \in WikiMaxResults :
          /\ wiki.searches[c].pc = "idle"
          /\ wiki' = wiki_search_start(wiki, c, max_results)
    /\ UNCHANGED <<config, texts, now, request_times, cache, pc, call, tasks,
                   response, admitted, plain_history, arg, ret, managerVars,
                   writers, rss, limiters>>

\* what a search that has returned did
WikiRet(c, search) ==
    [done |-> TRUE, results |-> search.results, caller |-> c,
     queried |-> search.queried,
     answers |-> search.answers, fetched |-> search.fetched]

\* a Wikipedia answers a _search_articles request
WikiCandidates ==
    /\ \E c \in WikiCallers, n \in 0..MaxCandidates :
          /\ wiki.searches[c].pc = "candidates"
          /\ wiki' = wiki_search_candidates(wiki, c, n)
          /\ ret' = IF wiki'.searches[c].pc = "idle"
                    THEN WikiRet(c, wiki'.searches[c]) ELSE ret
    /\ UNCHANGED <<routerVars, arg, managerVars, writers, rss, limiters>>

\* a Wikipedia answers a _get_article_data request
WikiArticle ==
    /\ \E c \in WikiCallers, data \in BOOLEAN :
          /\ wiki.searches[c].pc = "article"
          /\ wiki' = wiki_search_article(wiki, c, data)
          /\ ret' = IF wiki'.searches[c].pc = "idle"
                    THEN WikiRet(c, wiki'.searches[c]) ELSE ret
    /\ UNCHANGED <<routerVars, arg, managerVars, writers, rss, limiters>>

NextWiki == WikiConstruct \/ WikiSearchStart \/ WikiCandidates \/ WikiArticle

SpecWiki == InitWiki /\ [][NextWiki]_vars

\* articles handed to the feed filter
MaxArticles == 2

\* keywords of a query
MaxKeywords == 3

FeedWords == {"python", "news", "rust"}

ArticleTexts == {<<>>, <<"python">>, <<"news">>}

Articles ==
    [title : ArticleTexts, content : ArticleTexts,
     tags : {<<>>, <<"python">>}, published : {1, 2}]

InitFilter ==
    /\ config = DefaultConfig
    /\ texts = {}
    /\ InitRouter
    /\ arg \in [kind : {"filter"},
                text : UNION {[1..n -> FeedWords] : n \in 0..MaxKeywords},
                articles : UNION {[1..n -> Articles] : n \in 0..MaxArticles}]
    /\ ret = NoRet

Filter ==
    /\ ~ret.done
    /\ ret' = [done |-> TRUE,
               results |-> _filter_relevant_articles(arg.articles, arg.text)]
    /\ UNCHANGED <<routerVars, arg, managerVars, writers, wiki, rss, limiters>>

NextFilter == Filter

SpecFilter == InitFilter /\ [][NextFilter]_vars

\* the clock of the feed runs stops here
MaxFeedNow == 93600

\* _fetch_feed calls per behaviour in the feed runs
MaxFeedCalls == 2

FeedKeys == {"news"}

FeedDurations == {3600, 7200}

FeedSteps == {3600, 86400}

InitFeeds ==
    /\ config = DefaultConfig
    /\ texts = {}
    /\ InitRouter
    /\ arg \in [kind : {"rss"}, cache_duration : FeedDurations]
    /\ ret = NoRet

FeedConstruct ==
    /\ ~rss.constructed
    /\ rss' = RSSProvider(arg)
    /\ UNCHANGED <<routerVars, arg, ret, managerVars, writers, wiki, limiters>>

\* a caller enters _fetch_feed
FeedFetch ==
    /\ rss.constructed
    /\ nCalls < MaxFeedCalls
    /\ nCalls' = nCalls + 1
    /\ \E c \in FeedCallers, cache_key \in FeedKeys :
          /\ rss.fetches[c].pc = "idle"
          /\ LET r == _fetch_feed(rss, c, cache_key, now)
             IN  rss' = r.rss /\ ret' = IF r.ret.done THEN r.ret ELSE ret
    /\ UNCHANGED <<config, texts, now, request_times, cache, pc, call, tasks,
                   response, admitted, plain_history, arg, managerVars, writers,
                   wiki, limiters>>

\* session.get of a caller answers or raises
FeedResponse ==
    /\ \E c \in FeedCallers, fetched \in {"ok", "status", "timeout", "error"} :
          /\ rss.fetches[c].pc = "get"
          /\ LET r == _fetch_feed_response(rss, c, fetched)
             IN  rss' = r.rss /\ ret' = IF r.ret.done THEN r.ret ELSE ret
    /\ UNCHANGED <<routerVars, arg, managerVars, writers, wiki, limiters>>

\* response.text() of a caller answers or raises
FeedText ==
    /\ \E c \in FeedCallers, fetched \in {"ok", "error"} :
          /\ rss.fetches[c].pc = "text"
          /\ LET r == _fetch_feed_text(rss, c, now, fetched)
             IN  rss' = r.rss /\ ret' = r.ret
    /\ UNCHANGED <<routerVars, arg, managerVars, writers, wiki, limiters>>

FeedClock ==
    /\ rss.constructed
    /\ \E d \in FeedSteps : now + d <= MaxFeedNow /\ now' = now + d
    /\ UNCHANGED <<config, texts, request_times, cache, pc, call, tasks, response,
                   nCalls, admitted, plain_history, arg, ret, managerVars,
                   writers, wiki, rss, limiters>>

NextFeeds == FeedConstruct \/ FeedFetch \/ FeedResponse \/ FeedText \/ FeedClock

SpecFeeds == InitFeeds /\ [][NextFeeds]_vars

\* calls of _check_rate_limit the threads make
MaxThreadCalls == 3

ThreadOthers ==
    <<config, texts, cache, pc, call, tasks, response, plain_history, arg, ret,
      managerVars, writers, wiki, rss>>

ThreadReads ==
    /\ nCalls < MaxThreadCalls
    /\ nCalls' = nCalls + 1
    /\ \E t \in Threads : LimiterReads(t)
    /\ UNCHANGED <<now, ThreadOthers>>

ThreadFilters ==
    (\E t \in Threads : LimiterFilters(t)) /\ UNCHANGED <<now, nCalls, ThreadOthers>>

ThreadAssigns ==
    (\E t \in Threads : LimiterAssigns(t)) /\ UNCHANGED <<now, nCalls, ThreadOthers>>

ThreadChecks ==
    (\E t \in Threads : LimiterChecks(t)) /\ UNCHANGED <<now, nCalls, ThreadOthers>>

ThreadAppends ==
    (\E t \in Threads : LimiterAppends(t)) /\ UNCHANGED <<now, nCalls, ThreadOthers>>

ThreadClock ==
    /\ \E d \in RateSteps : now + d <= MaxRateNow /\ now' = now + d
    /\ UNCHANGED <<request_times, admitted, limiters, nCalls, ThreadOthers>>

NextThreads ==
    ThreadReads \/ ThreadFilters \/ ThreadAssigns \/ ThreadChecks \/ ThreadAppends \/ ThreadClock

SpecThreads == InitRate /\ [][NextThreads]_vars

----------------------------------------------------------------------------
(* Properties of the search runs *)

\* a search call has returned: response, call[0] and tasks[0] are those of
\* the last one that did
Returned == response.kind # "none"

\* the fan-out of the last call is over
FanoutOver == Returned /\ call[0].selected # <<>>

\* provider p's task of the last fan-out ran to its end
Completed(p) == tasks[0][p].state = "done"

\* the selected providers in S with the results of their tasks, as
\* provider_results, in the order of the fan-out
ResultsOf(S) ==
    LET names == Keep(call[0].selected, S)
    IN  [i \in DOMAIN names |->
            [name |-> names[i], results |-> tasks[0][names[i]].value.results]]

\* C1: a plain-text search that repeats the text, language and max_results of
\* an earlier plain-text search which missed the cache and returned results,
\* made before that entry's TTL elapsed, returns cache_hit = TRUE with the same
\* results and the same sources.
C1_CacheRoundTrip ==
    (Returned /\ response.kind = "response" /\ call[0].expected.valid)
        => /\ response.cache_hit
           /\ response.results = call[0].expected.results
           /\ response.sources_used = call[0].expected.sources

\* C2: when the deadline expires during the fan-out, the Response is the
\* aggregation of the results of the providers whose safe_search had completed,
\* and each of those providers is in sources_used.
C2_DeadlineKeepsCompleted ==
    (FanoutOver /\ call[0].timed_out)
        => /\ response.kind = "response"
           /\ response.results =
                 _aggregate_results(ResultsOf({p \in ProviderNames : Completed(p)}),
                                    call[0].query)
           /\ \A p \in Range(call[0].selected) :
                 Completed(p) => p \in Range(response.sources_used)

\* provider p's search raised in the last fan-out
Raised(p) == Completed(p) /\ tasks[0][p].value.raised

Remaining(p) == Completed(p) /\ ~tasks[0][p].value.raised

\* C3: after a fan-out in which the search of some selected providers raised,
\* search returns a Response, and its results are the aggregation of the results
\* of the remaining providers.
C3_ProviderErrorIsolated ==
    (FanoutOver /\ \E p \in Range(call[0].selected) : Raised(p))
        => /\ response.kind = "response"
           /\ response.results =
                 _aggregate_results(ResultsOf({p \in ProviderNames : Remaining(p)}),
                                    call[0].query)

\* C4: a provider whose search raised is not in sources_used of the Response
\* of the search it was selected for.
C4_ThrowingProviderExcluded ==
    (FanoutOver /\ response.kind = "response")
        => \A p \in Range(call[0].selected) :
              Raised(p) => p \notin Range(response.sources_used)

\* C8: a Response, from the providers or from the cache, has at most
\* max_results results, and total_results is the number of its results.
C8_AtMostMaxResults ==
    (Returned /\ response.kind = "response")
        => /\ Len(response.results) <= response.query.max_results
           /\ response.total_results = Len(response.results)

\* a Response cut to max_results: two providers returned results with distinct
\* URLs to a query with max_results = 1
C8_Witness ==
    /\ FanoutOver /\ response.kind = "response"
    /\ response.query.max_results = 1
    /\ Len(response.results) = 1
    /\ Len(DedupByUrl(AllResults(ResultsOf({p \in ProviderNames : Completed(p)})), {})) > 1

\* C6: a search waiting in its fan-out, where a selected provider's search may
\* never return, eventually returns a Response.
C6_SearchReturns ==
    \A s \in Searches, n \in 1..MaxFanoutCalls :
        (pc[s] = "fanout" /\ call[s].id = n)
            ~> (call[0].id = n /\ response.kind = "response")

\* search returned on the deadline while a selected provider had not answered
C6_Witness ==
    /\ FanoutOver /\ response.kind = "response" /\ call[0].timed_out
    /\ \E p \in Range(call[0].selected) : tasks[0][p].state = "pending"

----------------------------------------------------------------------------
(* Properties of the rate-limit runs *)

\* C5: with rate limiting on and limit N, a search call fails with the
\* rate-limit error exactly when N calls were admitted in the 60 seconds before
\* it; rejected calls are not among the admitted, so a call succeeds as soon as
\* fewer than N admitted calls are left in the window.
C5_SlidingWindow ==
    (Returned /\ config.rl_enabled)
        => /\ call[0].window_count <= config.requests_per_minute
           /\ (response.kind = "rate_limit")
                 <=> (call[0].window_count = config.requests_per_minute)
           /\ (response.kind = "response")
                 <=> (call[0].window_count < config.requests_per_minute)

\* a call rejected after the window has rolled past earlier admitted calls and
\* filled again
C5_Witness ==
    /\ Returned /\ config.rl_enabled
    /\ response.kind = "rate_limit"
    /\ Len(admitted) > config.requests_per_minute

----------------------------------------------------------------------------
(* Properties of the aggregation runs *)

\* the results handed to the aggregation, in the order of the iteration
AggGiven == AllResults(arg.provider_results)

\* C7: the results of a Response with a non-empty URL have pairwise distinct
\* normalized URLs; the deduplication keeps every result with an empty URL,
\* repeated or not, and they are all in a Response that max_results did not cut.
C7_DistinctUrls ==
    ret.done
        => /\ \A i, j \in DOMAIN ret.results :
                 (i # j /\ ret.results[i].url # <<>> /\ ret.results[j].url # <<>>)
                    => NormalizeUrl(ret.results[i].url) # NormalizeUrl(ret.results[j].url)
           /\ Keep(DedupByUrl(AggGiven, {}), {r \in Range(AggGiven) : r.url = <<>>})
                 = Keep(AggGiven, {r \in Range(AggGiven) : r.url = <<>>})
           /\ Len(ret.results) < arg.query.max_results
                 => \A r \in Range(AggGiven) :
                       r.url = <<>> => \E k \in DOMAIN ret.results :
                                          ret.results[k].title = r.title

\* two results whose URLs differ only in case and a trailing slash went in, one
\* came out, next to a result with an empty URL
C7_Witness ==
    /\ ret.done
    /\ \E i, j \in DOMAIN AggGiven :
          /\ i # j
          /\ AggGiven[i].url # AggGiven[j].url
          /\ AggGiven[i].url # <<>>
          /\ NormalizeUrl(AggGiven[i].url) = NormalizeUrl(AggGiven[j].url)
    /\ Cardinality({k \in DOMAIN ret.results : ret.results[k].url # <<>>}) = 1
    /\ Cardinality({k \in DOMAIN ret.results : ret.results[k].url = <<>>}) = 1

\* the score _rank_results leaves on a result handed to the aggregation
FinalScore(r) == RankScore(r.score, r.provider, arg.query.query_type)

\* the float that score is
FinalFloat(r) == RankFloat(r.score, r.provider, arg.query.query_type)

\* the result handed to the aggregation that carries the title of r
Given(r) == CHOOSE g \in Range(AggGiven) : g.title = r.title

\* C9: the results of a Response carry their final scores and are sorted by
\* them in descending order; results with equal final score are in the order
\* of the iteration over the providers and, within a provider, in the order the
\* provider returned them (their titles number that order).
C9_SortedStable ==
    ret.done
        => /\ \A k \in DOMAIN ret.results :
                 \E i \in DOMAIN AggGiven :
                    /\ AggGiven[i].title = ret.results[k].title
                    /\ ret.results[k].score = FinalScore(AggGiven[i])
           /\ \A i, j \in DOMAIN ret.results :
                 i < j => \/ FloatAbove(FinalFloat(Given(ret.results[i])),
                                        FinalFloat(Given(ret.results[j])))
                          \/ /\ FinalFloat(Given(ret.results[i]))
                                   = FinalFloat(Given(ret.results[j]))
                             /\ ret.results[i].title < ret.results[j].title

\* a Response in which the bonus moved a later provider's result to the front
\* and two results of different providers tie
C9_Witness ==
    /\ ret.done
    /\ Len(ret.results) = 3
    /\ ret.results[1].provider = "wikipedia"
    /\ FloatAbove(FinalFloat(Given(ret.results[1])), FinalFloat(Given(ret.results[2])))
    /\ FinalFloat(Given(ret.results[2])) = FinalFloat(Given(ret.results[3]))
    /\ ret.results[2].provider # ret.results[3].provider

----------------------------------------------------------------------------
(* Properties of the scoring runs *)

\* C10: every result of a Response has a score in [0, 1], whatever the
\* configured provider weight and the provider-local score.
C10_ScoreInUnitInterval ==
    ret.done
        => \A k \in DOMAIN ret.results :
              0 <= ret.results[k].score /\ ret.results[k].score <= ScoreOne

----------------------------------------------------------------------------
(* Properties of the cache runs *)

\* the last call was a get (a store) that met no storage fault
GetDone == arg.kind = "get" /\ arg.fault = "none"

StoreDone == arg.kind = "store" /\ arg.fault = "none"

\* the key of the last call's query
ArgKey == _hash_query(arg.query)

\* C11: get returns an entry while the current time is before the entry's
\* write time plus the TTL store gave it, and reports a miss once the current
\* time exceeds that, although the row is still in the table.
C11_ExpiryByTtl ==
    (GetDone /\ ArgKey \in DOMAIN arg.before)
        => LET row == arg.before[ArgKey]
               ttl == _get_ttl_for_query_type(config, row.query_type)
           IN  /\ now < row.created_at + ttl => ret.hit
               /\ now > row.created_at + ttl => ~ret.hit /\ ArgKey \in DOMAIN cache

\* C13: a storage fault inside get or store is absorbed: the call raises
\* nothing, get reports a miss and store writes nothing.
C13_StorageFaultAbsorbed ==
    (arg.kind \in {"get", "store"} /\ arg.fault # "none")
        => /\ ~ret.raised
           /\ ~ret.hit
           /\ arg.kind = "store" => cache = arg.before

\* C14: a get that follows a store of the same query at once returns the
\* stored results, in order and field by field, and the stored sources.
C14_StoreThenGet ==
    (GetDone /\ arg.prev_kind = "store" /\ arg.prev_fault = "none"
             /\ arg.prev_query = arg.query)
        => /\ ret.hit
           /\ ret.results = arg.prev_results
           /\ ret.sources = arg.prev_sources

----------------------------------------------------------------------------
(* Properties of the eviction runs *)

\* the table as the INSERT OR REPLACE of the last store left it
Written ==
    LET row == CacheRow(config, arg.query, arg.results, arg.sources, now, arg.micro)
    IN  [k \in (DOMAIN arg.before) \cup {ArgKey} |->
            IF k = ArgKey THEN row ELSE arg.before[k]]

\* the entries of table c that have not expired
Live(c) == {k \in DOMAIN c : Unexpired(c[k], now)}

\* C12: a store that brings the number of live entries above max_entries
\* leaves at most 80% of max_entries live entries, and no entry it evicts is
\* hotter, by (last_accessed, access_count), than an entry it retains.
C12_EvictColdest ==
    (StoreDone /\ Cardinality(Live(Written)) > config.max_entries)
        => /\ 10 * Cardinality(Live(cache)) <= 8 * config.max_entries
           /\ DOMAIN cache \subseteq DOMAIN Written
           /\ \A r \in DOMAIN cache : cache[r] = Written[r]
           /\ \A e \in (DOMAIN Written) \ (DOMAIN cache), r \in DOMAIN cache :
                 ~Hotter(Written[e], cache[r])

\* a store evicted an entry that was strictly colder than the one it retained
C12_Witness ==
    /\ StoreDone /\ Cardinality(Live(Written)) > config.max_entries
    /\ \E e \in (DOMAIN Written) \ (DOMAIN cache), r \in DOMAIN cache :
          Hotter(cache[r], Written[e])

----------------------------------------------------------------------------
(* The resource manager *)

\* the sessions of a provider that are open
OpenSessions(p) ==
    {s \in DOMAIN sessions : sessions[s].provider = p /\ ~sessions[s].closed}

\* C15: under any interleaving of get_session, close_provider_session and
\* stale-session cleanup calls, every await being a point where another call
\* may run, at most one open session created by the manager exists per
\* provider name.
C15_OneOpenSessionPerProvider ==
    \A p \in SessionProviders : Cardinality(OpenSessions(p)) <= 1

\* a get_session call has just returned a session
GotSession == outcome.op = "get_session" /\ outcome.raised = None

\* C16: get_session(p) returns the session the previous get_session(p)
\* returned as long as that session is open; when the pooled session is found
\* closed it leaves the pool and a new open session takes its place; different
\* provider names get different sessions.
C16_SessionReused ==
    GotSession =>
        /\ (/\ outcome.previous # NoSession
            /\ ~outcome.before.sessions[outcome.previous].closed)
              => outcome.session = outcome.previous
        /\ (/\ outcome.provider \in DOMAIN outcome.before.manager._session_pool
            /\ outcome.before.sessions[
                   outcome.before.manager._session_pool[outcome.provider]].closed)
              => /\ outcome.session \notin DOMAIN outcome.before.sessions
                 /\ ~sessions[outcome.session].closed
                 /\ manager._session_pool[outcome.provider] = outcome.session
        /\ \A q \in SessionProviders \ {outcome.provider} :
              last_session[q] # outcome.session

\* C17: after close_all completes, every session the manager ever created is
\* closed, the pool is empty and the stats report active_sessions = 0 and
\* is_closed = true; a further close_all changes nothing and raises nothing.
C17_CloseAllClosesEverything ==
    /\ closing.pc = "done" =>
          /\ \A s \in DOMAIN sessions : sessions[s].closed
          /\ DOMAIN manager._session_pool = {}
          /\ get_stats(manager, sessions).active_sessions = 0
          /\ get_stats(manager, sessions).is_closed
    /\ outcome.op = "close_all_again" =>
          /\ outcome.raised = None
          /\ manager = outcome.before.manager
          /\ sessions = outcome.before.sessions

\* close_all has closed two sessions, one of them no longer pooled when it
\* started, and a second close_all has returned
C17_Witness ==
    /\ closing.pc = "done"
    /\ outcome.op = "close_all_again"
    /\ Len(sessions) >= 2

\* C18: once close_all has started, every get_session call raises and creates
\* no session, also while close_all is suspended at its await.
C18_ClosedManagerRefuses ==
    (outcome.op = "get_session" /\ closing.pc # "none") =>
        /\ outcome.raised = "RuntimeError"
        /\ sessions = outcome.before.sessions
        /\ manager = outcome.before.manager

\* get_session was refused while close_all was suspended in its gather
C18_Witness ==
    /\ outcome.op = "get_session"
    /\ closing.pc = "gather"
    /\ outcome.raised = "RuntimeError"

\* the managers that are not closed
OpenManagers == {i \in DOMAIN instances : ~instances[i]._is_closed}

\* C19: get_global_resource_manager hands every caller, concurrent ones
\* included, the same manager while that manager is not closed, and creates a
\* manager only when there is none or the current one is closed.
C19_GlobalManagerShared ==
    /\ \A c, d \in Callers :
          (/\ callers[c].returned \in OpenManagers
           /\ callers[d].returned \in OpenManagers)
             => callers[c].returned = callers[d].returned
    /\ Cardinality(OpenManagers) <= 1
    /\ \A c \in Callers :
          callers[c].created =>
              callers[c].saw.global = NoManager \/ callers[c].saw.closed

\* both callers hold the same open manager, the second one created after
\* the first one was closed
C19_Witness ==
    /\ callers[1].returned = 2
    /\ callers[2].returned = 2
    /\ 2 \in OpenManagers
    /\ 1 \notin OpenManagers

\* the classification of the query of a selection run
Classified == classify(arg.text, arg.threshold)

\* C20: under smart routing, when the confidence exceeds the threshold the
\* selected providers are exactly the suggested ones that are enabled and
\* available; otherwise exactly the enabled available providers that support
\* the classified type.
C20_SmartRoutingSelection ==
    (ret.done /\ arg.strategy = "smart_routing") =>
        Range(ret.results) =
            IF ConfAbove(Classified.confidence, arg.threshold)
            THEN {p \in Range(Classified.suggested_providers) :
                    p \in arg.providers /\ arg.avail[p]}
            ELSE {p \in arg.providers :
                    arg.avail[p] /\ Classified.primary_type \in SupportedTypes(p)}

\* what the smart-routing branches of a selection run select, before the
\* fallback
SmartSelection ==
    IF ConfAbove(Classified.confidence, arg.threshold)
    THEN {p \in Range(Classified.suggested_providers) :
            p \in arg.providers /\ arg.avail[p]}
    ELSE {p \in arg.providers :
            arg.avail[p] /\ Classified.primary_type \in SupportedTypes(p)}

\* C21: when the smart-routing selection is empty, duckduckgo is selected
\* only if it is enabled and reports available; otherwise no provider is
\* selected.
C21_FallbackOnlyIfAvailable ==
    (ret.done /\ arg.strategy = "smart_routing" /\ SmartSelection = {}) =>
        ret.results = IF "duckduckgo" \in arg.providers /\ arg.avail["duckduckgo"]
                      THEN <<"duckduckgo">>
                      ELSE <<>>
\* C22: a router whose configuration enables no provider is never
\* constructed, so no search call is ever served by a router without
\* providers.
C22_NoRouterWithoutProviders ==
    response.kind = "response" => config.providers # {}
\* the checks of a provider run all pass
SafeChecksPass ==
    /\ arg.enabled
    /\ arg.text # <<>> /\ arg.max_results > 0
    /\ ~arg.unavailable_raises /\ arg.available

\* C23: safe_search invokes search only if the provider is enabled, the query
\* is valid and is_available returned true, checked in this order; in every
\* other case, and whenever is_available or search raises, it returns an
\* empty list without raising; on success every returned score is the
\* provider's score times the weight, once.
C23_SafeSearchGuards ==
    ret.done =>
        /\ ret.kind = "list"
        /\ ret.invoked =
              IF ~arg.enabled THEN <<>>
              ELSE IF ~(arg.text # <<>> /\ arg.max_results > 0)
              THEN <<"validate_query">>
              ELSE IF ~SafeChecksPass THEN <<"validate_query", "is_available">>
              ELSE <<"validate_query", "is_available", "search">>
        /\ (~SafeChecksPass \/ arg.raises) => ret.results = <<>>
        /\ (SafeChecksPass /\ ~arg.raises) =>
              /\ Len(ret.results) = Len(ret.output)
              /\ \A i \in DOMAIN ret.results :
                    /\ ret.results[i].score * 10 = ret.output[i].score * arg.weight
                    /\ ret.results[i].url = ret.output[i].url

\* a successful call with weight 0.5 returning two results
C23_Witness ==
    /\ ret.done
    /\ SafeChecksPass /\ ~arg.raises
    /\ arg.weight = 5
    /\ Len(ret.results) = 2
\* the keywords found in the text of a classifier run
KeywordsFound == UNION {KeywordsIn(arg.text[i]) : i \in DOMAIN arg.text}

\* C24: classifying a text that contains a trigger keyword of some type yields
\* that type as the primary type and a confidence strictly greater than 0.5,
\* whatever else the text contains.
C24_KeywordDecidesType ==
    ret.done =>
        \A k \in KeywordsFound :
            /\ ret.report.primary_type = k[1]
            /\ ConfAbove(ret.report.confidence, 5)

\* the sum of the scores of the text of a classifier run
TotalScore == SumScores(Scores(arg.text))

\* C25: classify always returns a report: with all scores zero the primary
\* type is general and the confidence 0.5; otherwise the primary type has the
\* maximal score and the confidence is that score divided by the sum of the
\* scores; the confidence lies in [0, 1].
C25_ReportIsArgMax ==
    ret.done =>
        /\ ret.report.primary_type \in QueryTypes
        /\ ~ConfBelow(ret.report.confidence, 0)
        /\ ~ConfAbove(ret.report.confidence, 10)
        /\ IF TotalScore = Tenths(0)
           THEN /\ ret.report.primary_type = "general"
                /\ ~ConfBelow(ret.report.confidence, 5)
                /\ ~ConfAbove(ret.report.confidence, 5)
           ELSE /\ \A t \in QueryTypes :
                      ~FloatLess(Scores(arg.text)[ret.report.primary_type],
                                 Scores(arg.text)[t])
                /\ ret.report.confidence.num = Scores(arg.text)[ret.report.primary_type]
                /\ ret.report.confidence.den = TotalScore

\* a text with evidence for all three types has been classified
C25_Witness ==
    /\ ret.done
    /\ \A t \in QueryTypes : FloatLess(Tenths(0), Scores(arg.text)[t])
\* a row without its access statistics
WithoutStats(row) == [row EXCEPT !.access_count = 0, !.last_accessed = 0]

\* this step is a search call answered from the cache
HitStep ==
    /\ nCalls' # nCalls /\ call'[0].id = nCalls'
    /\ response'.kind = "response" /\ response'.cache_hit

\* C26: a search call answered from the cache classifies nothing, starts no
\* provider, changes nothing in the cache but the access statistics of the row
\* it hit, and returns that row's results and sources with cache_hit = TRUE.
C26_HitSkipsEverything ==
    [][HitStep =>
          LET k == _hash_query(call'[0].query)
          IN  /\ k \in DOMAIN cache
              /\ DOMAIN cache' = DOMAIN cache
              /\ \A j \in DOMAIN cache \ {k} : cache'[j] = cache[j]
              /\ WithoutStats(cache'[k]) = WithoutStats(cache[k])
              /\ pc' = pc
              /\ call'[0].selected = <<>>
              /\ \A p \in ProviderNames : tasks'[0][p].state = "none"
              /\ \A r \in Searches : call'[r] = call[r] /\ tasks'[r] = tasks[r]
              /\ response'.query.query_type = call'[0].query_type_in
              /\ response'.results =
                    [i \in DOMAIN cache[k].results |-> from_dict(cache[k].results[i])]
              /\ response'.sources_used = cache[k].sources]_vars

\* a call has been answered from the cache with a result
C26_Witness ==
    /\ Returned
    /\ response.kind = "response"
    /\ response.cache_hit
    /\ response.results # <<>>
\* C27: every row written by store has expires_at > created_at, with
\* expires_at the process clock at the write plus the TTL of the query type
\* and created_at the database clock, whatever the offset between the clocks.
C27_ExpiresAfterCreated ==
    \A k \in DOMAIN cache :
        /\ cache[k].expires_at > cache[k].created_at
        /\ cache[k].expires_at =
              cache[k].created_at + config.tz_offset
                  + _get_ttl_for_query_type(config, cache[k].query_type)
\* C28: eviction runs in the transaction of the insert that triggers it:
\* under concurrent store calls the committed table, which is what any other
\* cache operation observes, never holds more than max_entries rows.
C28_EvictionWithInsert ==
    Cardinality(DOMAIN cache) <= config.max_entries
\* C29: with force_search_all true and search enabled, _should_perform_search
\* returns true for every non-empty message list, business-evaluation prompts
\* included, and false for the empty list.
C29_ForceSearchAll ==
    (ret.done /\ arg.enabled /\ arg.force_search_all) =>
        ret.value = (arg.messages # <<>>)

\* C30: every WikipediaProvider.search call queries the configured primary
\* language first, and the fallback languages, in configured order, only when
\* the primary language yields no candidate: also after a call that fell back.
C30_PrimaryLanguageFirst ==
    ret.done =>
        /\ ret.queried[1] = arg.language
        /\ Len(ret.queried) > 1 => ~ret.answers[1]
        /\ Len(ret.queried) - 1 <= Len(arg.fallback_languages)
        /\ \A i \in 2..Len(ret.queried) :
              ret.queried[i] = arg.fallback_languages[i - 1]

\* C31: the feed filter keeps an article only if at least half of the
\* query's keywords each match it, in its title, its content or a tag.
C31_HalfOfKeywordsMatch ==
    ret.done =>
        \A k \in DOMAIN ret.results :
            2 * RelevanceOncePerKeyword(ret.results[k], arg.text).keyword_matches
                >= Len(arg.text)

\* C32: a feed is served from the in-memory feed cache only while its age is
\* below cache_duration (at every greater age the fetch downloads it again),
\* and a failed or non-200 fetch stores nothing in the cache.
C32_FeedCacheByAge ==
    ret.done =>
        /\ ret.served = "cache" => ret.age < rss.cache_duration
        /\ ret.stored => ret.served = "download" /\ ret.fetched = "ok"

\* the times t in a sequence of times, counted with their repetitions
TimesAt(times, t) == Cardinality({i \in DOMAIN times : times[i] = t})

\* C33: with several threads inside search on one router, no 60-second
\* window holds more admitted calls than requests_per_minute, and every
\* admitted time still inside the window is in _request_times.
C33_ThreadedRateLimit ==
    /\ \A i \in DOMAIN admitted :
          Cardinality({j \in DOMAIN admitted :
              /\ admitted[j] <= admitted[i]
              /\ admitted[i] - admitted[j] < RateWindow})
            <= config.requests_per_minute
    /\ \A i \in DOMAIN admitted :
          now - admitted[i] < RateWindow =>
              TimesAt(request_times, admitted[i]) >= TimesAt(admitted, admitted[i])

\* the sessions the pool of a manager holds
Pooled(m) == {m._session_pool[p] : p \in DOMAIN m._session_pool}

\* C34: a close_provider_session(p) that runs while another
\* close_provider_session(p), a get_session(p) or the stale-session cleanup
\* runs never raises, and takes no session out of the pool but the one it
\* closed.
C34_CloseProviderSafe ==
    [][\A c \in closers :
          closers' = closers \ {c} =>
              /\ outcome'.raised = None
              /\ Pooled(manager) \ Pooled(manager') \subseteq {c.session}]_vars

\* C35: the open sessions a SearchResourceManager holds are never more than
\* its configured max_sessions, whatever provider names get_session is
\* called with.
C35_OpenSessionsBounded ==
    get_stats(manager, sessions).active_sessions <= arg.max_sessions

\* C36: under smart routing every selected provider, the one the fallback
\* chooses for an empty selection included, lists the classified primary type
\* among its supported query types.
C36_SelectedSupportType ==
    (ret.done /\ arg.strategy = "smart_routing") =>
        \A p \in Range(ret.results) : Classified.primary_type \in SupportedTypes(p)

\* a confident classification of a type that an enabled, available provider
\* does not support, and a selection that leaves that provider out
C36_Witness ==
    /\ ret.done
    /\ arg.strategy = "smart_routing"
    /\ ConfAbove(Classified.confidence, arg.threshold)
    /\ ret.results # <<>>
    /\ \E p \in arg.providers :
          /\ arg.avail[p]
          /\ Classified.primary_type \notin SupportedTypes(p)
          /\ p \notin Range(ret.results)

\* all_results of an aggregation run
AggAllResults == AllResults(arg.provider_results)

\* C37: aggregation drops a result before truncation only when an earlier
\* result of the same aggregation has the same normalized URL; a result whose
\* URL no other result shares is never dropped, whatever the URL is.
C37_OnlyDuplicatesDropped ==
    (ret.done /\ Len(AggAllResults) <= arg.query.max_results) =>
        \A i \in DOMAIN AggAllResults :
            (\A j \in 1..(i - 1) :
                NormalizeUrl(AggAllResults[j].url) # NormalizeUrl(AggAllResults[i].url))
            => \E k \in DOMAIN ret.results :
                  ret.results[k].title = AggAllResults[i].title

\* C38: a store that triggers eviction does not evict the entry it has just
\* written: a get of the same query right after it hits, for every
\* max_entries >= 1 and every access history of the other entries.
C38_StoreSurvivesEviction ==
    (StoreDone /\ Cardinality(DOMAIN Written) > config.max_entries)
        => get(config, cache, arg.query, now, "none").hit

====
